---- MODULE Spec2Model ----
(***************************************************************************)
(* Transactional outbox, reconciliation worker, operation handlers and the *)
(* inbound webhook of phiacta.                                             *)
(*                                                                         *)
(*   outbox     the outbox table            (models/outbox.py)             *)
(*   claims     the claims table, the columns the subsystem touches        *)
(*   forge      the external git store as seen through ForgejoGitService   *)
(*   workers    one OutboxWorker poll loop per worker                      *)
(***************************************************************************)
EXTENDS Integers, Sequences, FiniteSets, TLC

\* ------------------------------------------------------------------------
\* Bounds
\* ------------------------------------------------------------------------
NumWorkers == 2

MaxEntries == 2

MaxClaims == 2

MaxAttemptsBound == 2

\* ------------------------------------------------------------------------
\* Program constants
\* ------------------------------------------------------------------------
\* SQL NULL / Python None of the nullable integer columns.
NULL == 0

\* datetime.now(timezone.utc) written to processed_at (one abstract instant).
Now == 1

\* Max entries to claim per poll cycle.
BATCH_SIZE == 10

\* Events handed to the dispatcher.
MaxEvents == 2

Workers == 1..NumWorkers

ClaimIds == 1..MaxClaims

\* Formats a producer may put into a payload (body.format is a free string).
FormatInputs == {"markdown", "docx"}

VARIABLES
    outbox,     \* id -> row of the outbox table
    nextId,     \* number of outbox rows ever inserted (ids are never reused)
    locks,      \* id -> worker holding the FOR UPDATE row lock, for locked rows
    claims,     \* claim id -> row of the claims table
    forge,      \* claim id -> state of the repository named after the claim
    pc,         \* worker -> position in _process_batch / _process_entry
    batch,      \* worker -> the entries list (ORM snapshots taken at claim)
    idx,        \* worker -> index into batch of the entry being processed
    res,        \* worker -> result of the handler's external calls
    hist,       \* id -> how often the handler was invoked and how often it raised
    retried,    \* worker -> ids it returned to pending since it last slept or polled
                \* (kept for the workers whose sleeps are modelled)
    head,       \* claim id -> id of the entry whose content the last commit wrote
                \* (kept for the claims whose content is followed)
    prov,       \* claim id -> progress of two direct runs of the provision handler
    secret,     \* settings.forgejo_webhook_secret
    req,        \* the webhook request handled last
    resp,       \* the HTTP status answered to it
    events,     \* the dispatch_event calls made by the webhook receiver
    writes,     \* number of UPDATE statements the webhook receiver executed
    notify,     \* the notification tasks started by dispatch_event
    running,    \* worker -> self._running
    cancelled,  \* worker -> task.cancel() was called and CancelledError is not yet delivered
    stopPc,     \* worker -> position in stop()
    closed,     \* worker -> the Forgejo client was closed (self._git.close())
    txn,        \* the database session of the producer request being served
    content     \* claim id -> number of writes of claims.content_cache

workerVars == <<locks, pc, batch, idx, res, hist, retried, head>>

hookVars == <<secret, req, resp, events, writes, notify>>

lifeVars == <<running, cancelled, stopPc, closed>>

prodVars == <<txn, content>>

vars == <<outbox, nextId, claims, forge, workerVars, prov, hookVars, lifeVars, prodVars>>

\* ------------------------------------------------------------------------
\* Helpers
\* ------------------------------------------------------------------------
Min(a, b) == IF a < b THEN a ELSE b

RECURSIVE SetToSortedSeq(_)
\* ORDER BY created_at: created_at grows with the id.
SetToSortedSeq(S) ==
    IF S = {} THEN <<>>
    ELSE LET m == CHOOSE x \in S : \A y \in S : x <= y
         IN  <<m>> \o SetToSortedSeq(S \ {m})

SeqIds(s) == {s[i].id : i \in 1..Len(s)}

\* ------------------------------------------------------------------------
\* External store (Forgejo) behind ForgejoGitService
\* ------------------------------------------------------------------------
\* A repository that was never created.
NoRepo == [exists |-> FALSE, commits |-> 0, files |-> {}, protections |-> 0, hooks |-> 0,
           branches |-> {}]

\* The integer id the store assigns to the repository named after claim c.
RepoId(c) == c

\* Result of a handler's calls so far.  failAt: the number of the service
\* call answered by a connect error / timeout / 503 (0: none).  rejectDup:
\* whether the store answers a second branch-protection POST for the same
\* branch with an HTTP error.
StartCalls(f, failAt, rejectDup) ==
    [ok |-> TRUE, err |-> "", forge |-> f, n |-> 0, calls |-> <<>>,
     repo_id |-> NULL, sha |-> NULL,
     failAt |-> failAt, rejectDup |-> rejectDup]

\* An exception leaves the handler: nothing after it runs.
Raise(r, kind) == [r EXCEPT !.ok = FALSE, !.err = kind]

\* _request: connect errors, timeouts and 503 become ForgejoUnavailableError.
Unavailable(r) == r.n + 1 = r.failAt

create_repo(r, c) ==
    IF ~r.ok THEN r
    ELSE LET r1 == [r EXCEPT !.n = @ + 1, !.calls = Append(@, "create_repo")]
         IN  IF Unavailable(r) THEN Raise(r1, "unavailable")
             ELSE IF r.forge[c].exists
                  THEN [r1 EXCEPT !.repo_id = RepoId(c)]
                  ELSE [r1 EXCEPT !.forge[c].exists = TRUE, !.repo_id = RepoId(c)]

setup_branch_protection(r, c) ==
    IF ~r.ok THEN r
    ELSE LET r1 == [r EXCEPT !.n = @ + 1, !.calls = Append(@, "setup_branch_protection")]
         IN  IF Unavailable(r) THEN Raise(r1, "unavailable")
             ELSE IF ~r.forge[c].exists THEN Raise(r1, "not_found")
             ELSE IF r.forge[c].protections = 0
                  THEN [r1 EXCEPT !.forge[c].protections = 1]
                  ELSE IF r.rejectDup THEN Raise(r1, "api_error") ELSE r1

setup_webhook(r, c) ==
    IF ~r.ok THEN r
    ELSE LET r1 == [r EXCEPT !.n = @ + 1, !.calls = Append(@, "setup_webhook")]
         IN  IF Unavailable(r) THEN Raise(r1, "unavailable")
             ELSE IF ~r.forge[c].exists THEN Raise(r1, "not_found")
             ELSE [r1 EXCEPT !.forge[c].hooks = @ + 1]

MainBranch == <<"m", "a", "i", "n">>

\* One file, one commit on main: GET decides between POST (create) and PUT (update);
\* the sha returned is that of the commit just made.
commit_files(r, c, path) ==
    IF ~r.ok THEN r
    ELSE LET r1 == [r EXCEPT !.n = @ + 1, !.calls = Append(@, "commit_files")]
         IN  IF Unavailable(r) THEN Raise(r1, "unavailable")
             ELSE IF ~r.forge[c].exists THEN Raise(r1, "not_found")
             ELSE [r1 EXCEPT !.forge[c].commits = @ + 1,
                             !.forge[c].files = @ \cup {path},
                             !.forge[c].branches = @ \cup {MainBranch},
                             !.sha = r.forge[c].commits + 1]

\* POST /repos/{repo}/branches.  The store answers a name it already has
\* with an HTTP error; from_ref is resolved by the store.
create_branch(r, c, name, from_ref) ==
    IF ~r.ok THEN r
    ELSE LET r1 == [r EXCEPT !.n = @ + 1, !.calls = Append(@, "create_branch")]
         IN  IF Unavailable(r) THEN Raise(r1, "unavailable")
             ELSE IF ~r.forge[c].exists THEN Raise(r1, "not_found")
             ELSE IF name \in r.forge[c].branches THEN Raise(r1, "conflict")
             ELSE [r1 EXCEPT !.forge[c].branches = @ \cup {name}]

\* PATCH /repos/{repo}/branches/{old_name}.
rename_branch(r, c, old_name, new_name) ==
    IF ~r.ok THEN r
    ELSE LET r1 == [r EXCEPT !.n = @ + 1, !.calls = Append(@, "rename_branch")]
         IN  IF Unavailable(r) THEN Raise(r1, "unavailable")
             ELSE IF ~r.forge[c].exists \/ old_name \notin r.forge[c].branches
                  THEN Raise(r1, "not_found")
             ELSE IF new_name \in r.forge[c].branches THEN Raise(r1, "conflict")
             ELSE [r1 EXCEPT !.forge[c].branches = (@ \ {old_name}) \cup {new_name}]

\* ------------------------------------------------------------------------
\* Branch and ref names.  A name is a sequence of characters; "LF" is the
\* newline character and "~" stands for any character outside the class.
\* ------------------------------------------------------------------------
\* [a-zA-Z0-9], as far as the names of the model use it.
Alnum == {"a", "c", "i", "k", "l", "m", "n", "o"}

\* [a-zA-Z0-9._/-]
RefClass == Alnum \cup {".", "_", "/", "-"}

\* The longest string the pattern consumes: one character and {0,254} more.
RefMaxLen == 255

\* The whole of s is [a-zA-Z0-9][a-zA-Z0-9._/-]{0,254}.
FullMatch(s) ==
    /\ Len(s) >= 1 /\ Len(s) <= RefMaxLen
    /\ s[1] \in Alnum
    /\ \A i \in 2..Len(s) : s[i] \in RefClass

\* _GIT_REF_RE.match(ref): "^" anchors at the start; "$" matches at the end
\* of the string and also just before a newline that ends the string.
_GIT_REF_RE(ref) ==
    \/ FullMatch(ref)
    \/ /\ Len(ref) >= 2 /\ ref[Len(ref)] = "LF"
       /\ FullMatch(SubSeq(ref, 1, Len(ref) - 1))

\* sub in s
Contains(s, sub) ==
    \E i \in 1..(Len(s) - Len(sub) + 1) : SubSeq(s, i, i + Len(sub) - 1) = sub

\* s.endswith(suf)
EndsWith(s, suf) ==
    Len(s) >= Len(suf) /\ SubSeq(s, Len(s) - Len(suf) + 1, Len(s)) = suf

DotLock == <<".", "l", "o", "c", "k">>

\* _validate_git_ref returns the ref (TRUE) or raises ValueError (FALSE).
_validate_git_ref(ref) ==
    /\ _GIT_REF_RE(ref)
    /\ ~(Contains(ref, <<".", ".">>) \/ EndsWith(ref, DotLock) \/ EndsWith(ref, <<"/">>))

\* ------------------------------------------------------------------------
\* Operation handlers (the external calls; the write-back is WriteBack)
\* ------------------------------------------------------------------------
AllowedFormats == {"markdown", "latex", "plain"}

_validate_format(fmt) == fmt \in AllowedFormats

\* f"claim{ext}" with ext looked up by format, ".md" by default.
ClaimPath(fmt) ==
    CASE fmt = "markdown" -> "claim.md"
      [] fmt = "latex" -> "claim.tex"
      [] fmt = "plain" -> "claim.txt"
      [] OTHER -> "claim.md"

\* A provision handler that leaves out the webhook registration.
_handle_create_repo_NoWebhook(r, payload) ==
    IF ~_validate_format(payload.format) THEN Raise(r, "ValueError")
    ELSE LET c  == payload.claim_id
             s1 == create_repo(r, c)
             s2 == commit_files(s1, c, ClaimPath(payload.format))
         IN  setup_branch_protection(s2, c)

_handle_create_repo(r, payload) ==
    IF ~_validate_format(payload.format) THEN Raise(r, "ValueError")
    ELSE LET c  == payload.claim_id
             s1 == create_repo(r, c)
             s2 == commit_files(s1, c, ClaimPath(payload.format))
             s3 == setup_branch_protection(s2, c)
         IN  setup_webhook(s3, c)

_handle_commit_files(r, payload) ==
    IF ~_validate_format(payload.format) THEN Raise(r, "ValueError")
    ELSE commit_files(r, payload.claim_id, ClaimPath(payload.format))

\* Both names are validated before the call.
_handle_create_branch(r, payload) ==
    IF ~_validate_git_ref(payload.branch_name) THEN Raise(r, "ValueError")
    ELSE IF ~_validate_git_ref(payload.from_ref) THEN Raise(r, "ValueError")
    ELSE create_branch(r, payload.claim_id, payload.branch_name, payload.from_ref)

OutboxOperation ==
    {"create_repo", "commit_files", "create_branch", "rename_branch",
     "setup_branch_protection", "setup_webhook"}

\* A dispatch that takes an unknown operation for done.
_dispatch_UnknownIsNoOp(r, entry) ==
    CASE entry.operation = "create_repo" -> _handle_create_repo(r, entry.payload)
      [] entry.operation = "commit_files" -> _handle_commit_files(r, entry.payload)
      [] entry.operation = "create_branch" -> _handle_create_branch(r, entry.payload)
      [] entry.operation = "rename_branch" ->
             IF ~_validate_git_ref(entry.payload.old_name) THEN Raise(r, "ValueError")
             ELSE IF ~_validate_git_ref(entry.payload.new_name) THEN Raise(r, "ValueError")
             ELSE rename_branch(r, entry.payload.claim_id,
                                entry.payload.old_name, entry.payload.new_name)
      [] entry.operation = "setup_branch_protection" ->
             setup_branch_protection(r, entry.payload.claim_id)
      [] entry.operation = "setup_webhook" -> setup_webhook(r, entry.payload.claim_id)
      [] OTHER -> r

_dispatch(r, entry) ==
    CASE entry.operation = "create_repo" -> _handle_create_repo(r, entry.payload)
      [] entry.operation = "commit_files" -> _handle_commit_files(r, entry.payload)
      [] entry.operation = "create_branch" -> _handle_create_branch(r, entry.payload)
      [] entry.operation = "rename_branch" ->
             IF ~_validate_git_ref(entry.payload.old_name) THEN Raise(r, "ValueError")
             ELSE IF ~_validate_git_ref(entry.payload.new_name) THEN Raise(r, "ValueError")
             ELSE rename_branch(r, entry.payload.claim_id,
                                entry.payload.old_name, entry.payload.new_name)
      [] entry.operation = "setup_branch_protection" ->
             setup_branch_protection(r, entry.payload.claim_id)
      [] entry.operation = "setup_webhook" -> setup_webhook(r, entry.payload.claim_id)
      [] OTHER -> Raise(r, "ValueError")

\* Handlers that end with an UPDATE of the claims table.
WritesBack(op) == op \in {"create_repo", "commit_files"}

\* A content write-back that also marks the claim ready.
WriteBackRow_ContentMarksReady(cl, entry, r) ==
    LET c == entry.payload.claim_id
    IN  IF c \notin DOMAIN cl THEN cl
        ELSE IF entry.operation = "create_repo"
             THEN [cl EXCEPT ![c] = [repo_status |-> "ready",
                                     forgejo_repo_id |-> r.repo_id,
                                     current_head_sha |-> r.sha]]
             ELSE [cl EXCEPT ![c].current_head_sha = r.sha, ![c].repo_status = "ready"]

\* A content write-back that marks the claim as broken.
WriteBackRow_MarksError(cl, entry, r) ==
    LET c == entry.payload.claim_id
    IN  IF c \notin DOMAIN cl THEN cl
        ELSE IF entry.operation = "create_repo"
             THEN [cl EXCEPT ![c] = [repo_status |-> "ready",
                                     forgejo_repo_id |-> r.repo_id,
                                     current_head_sha |-> r.sha]]
             ELSE [cl EXCEPT ![c].current_head_sha = r.sha, ![c].repo_status = "error"]

\* A write-back that records the head but leaves repo_status alone.
WriteBackRow_HeadOnly(cl, entry, r) ==
    LET c == entry.payload.claim_id
    IN  IF c \notin DOMAIN cl THEN cl
        ELSE [cl EXCEPT ![c].current_head_sha = r.sha]

\* Step 5 of _handle_create_repo / the head update of _handle_commit_files:
\* UPDATE claims ... WHERE id = :claim_id (no row, no change).
WriteBackRow(cl, entry, r) ==
    LET c == entry.payload.claim_id
    IN  IF c \notin DOMAIN cl THEN cl
        ELSE IF entry.operation = "create_repo"
             THEN [cl EXCEPT ![c] = [repo_status |-> "ready",
                                     forgejo_repo_id |-> r.repo_id,
                                     current_head_sha |-> r.sha]]
             ELSE [cl EXCEPT ![c].current_head_sha = r.sha]

\* ------------------------------------------------------------------------
\* Outbox rows and producers
\* ------------------------------------------------------------------------
\* Outbox(operation=..., payload=...): status, attempts, last_error and
\* processed_at take their column defaults; created_at grows with the id.
\* max_attempts is fixed at creation: k stands for the value the creator
\* gives (the column default when it gives none).
NewEntry(id, op, c, fmt, k) ==
    [id |-> id, operation |-> op, payload |-> [claim_id |-> c, format |-> fmt],
     status |-> "pending", attempts |-> 0, max_attempts |-> k,
     last_error |-> "", processed_at |-> NULL, retry_after |-> NULL,
     created_at |-> id]

\* An Outbox row for create_branch (branch_name, from_ref) or rename_branch
\* (old_name, new_name).
BranchEntry(id, op, c, n1, n2, k) ==
    [id |-> id, operation |-> op,
     payload |-> IF op = "create_branch"
                 THEN [claim_id |-> c, branch_name |-> n1, from_ref |-> n2]
                 ELSE [claim_id |-> c, old_name |-> n1, new_name |-> n2],
     status |-> "pending", attempts |-> 0, max_attempts |-> k,
     last_error |-> "", processed_at |-> NULL, retry_after |-> NULL,
     created_at |-> id]

NewClaim == [repo_status |-> "provisioning", forgejo_repo_id |-> NULL,
             current_head_sha |-> NULL]

NoHist == [dispatched |-> 0, raised |-> 0]

\* No handler result pending.
NoRes == [ok |-> TRUE, err |-> "", repo_id |-> NULL, sha |-> NULL, n |-> 0,
          calls |-> <<>>]

\* create_claim / derive_claim / submit_bundle: the claim row and its
\* create_repo entry are committed together.
CreateClaim(c, fmt, k) ==
    /\ nextId < MaxEntries
    /\ c \notin DOMAIN claims
    /\ claims' = (c :> NewClaim) @@ claims
    /\ outbox' = ((nextId + 1) :> NewEntry(nextId + 1, "create_repo", c, fmt, k)) @@ outbox
    /\ hist' = ((nextId + 1) :> NoHist) @@ hist
    /\ nextId' = nextId + 1
    /\ content' = (c :> 1) @@ content
    /\ UNCHANGED <<locks, forge, pc, batch, idx, res>>
    /\ UNCHANGED <<prov, hookVars, lifeVars, txn>>
    /\ UNCHANGED <<retried, head>>

\* update_claim with new content: a commit_files entry for an existing claim.
UpdateClaim(c, fmt, k) ==
    /\ nextId < MaxEntries
    /\ c \in DOMAIN claims
    /\ outbox' = ((nextId + 1) :> NewEntry(nextId + 1, "commit_files", c, fmt, k)) @@ outbox
    /\ hist' = ((nextId + 1) :> NoHist) @@ hist
    /\ nextId' = nextId + 1
    /\ content' = [content EXCEPT ![c] = @ + 1]
    /\ UNCHANGED <<locks, claims, forge, pc, batch, idx, res>>
    /\ UNCHANGED <<prov, hookVars, lifeVars, txn>>
    /\ UNCHANGED <<retried, head>>

\* The producers' requests step by step.  A session's writes reach the
\* tables at its commit; a request that ends before it (an exception, the
\* process dying) closes the session, which rolls back.
\* inserts: claims added and flushed; updates: claims whose content_cache
\* was assigned; entries: Outbox objects added, as <<operation, claim id>>.
NoTxn == [phase |-> "none"]

Idle == txn.phase \in {"none", "committed", "aborted"}

\* create_claim and derive_claim (one claim), submit_bundle (its claims):
\* the claims are added and flushed.
ProdFlush(S, fmt, k) ==
    /\ Idle
    /\ S # {} /\ S \cap DOMAIN claims = {}
    /\ nextId + Cardinality(S) <= MaxEntries
    /\ txn' = [phase |-> "flushed", inserts |-> S, updates |-> {}, entries |-> <<>>,
               fmt |-> fmt, k |-> k]
    /\ UNCHANGED <<outbox, nextId, claims, forge, workerVars, prov, hookVars, lifeVars, content>>

\* The create_repo entries are added to the session, one for each claim.
ProdAddEntries ==
    /\ txn.phase = "flushed"
    /\ LET ord == SetToSortedSeq(txn.inserts)
       IN  txn' = [txn EXCEPT !.phase = "added",
                              !.entries = [j \in 1..Len(ord) |-> <<"create_repo", ord[j]>>]]
    /\ UNCHANGED <<outbox, nextId, claims, forge, workerVars, prov, hookVars, lifeVars, content>>

\* update_claim: with new content, content_cache is assigned and a
\* commit_files entry is added; without, neither.
ProdUpdate(c, fmt, k, hasContent) ==
    /\ Idle
    /\ c \in DOMAIN claims
    /\ nextId + 1 <= MaxEntries
    /\ txn' = [phase |-> "added", inserts |-> {},
               updates |-> IF hasContent THEN {c} ELSE {},
               entries |-> IF hasContent THEN << <<"commit_files", c>> >> ELSE <<>>,
               fmt |-> fmt, k |-> k]
    /\ UNCHANGED <<outbox, nextId, claims, forge, workerVars, prov, hookVars, lifeVars, content>>

\* The rows a commit inserts into the outbox table.
NewRows(t) ==
    [i \in (nextId + 1)..(nextId + Len(t.entries)) |->
        NewEntry(i, t.entries[i - nextId][1], t.entries[i - nextId][2], t.fmt, t.k)]

\* A commit that writes the claims but loses the outbox entries.
ProdCommit_ClaimsOnly ==
    /\ txn.phase = "added"
    /\ claims' = [c \in txn.inserts |-> NewClaim] @@ claims
    /\ content' = [c \in txn.inserts |-> 1] @@
                  [c \in DOMAIN content |-> IF c \in txn.updates THEN content[c] + 1
                                            ELSE content[c]]
    /\ txn' = [txn EXCEPT !.phase = "committed"]
    /\ UNCHANGED <<outbox, hist, nextId>>
    /\ UNCHANGED <<locks, forge, pc, batch, idx, res, prov, hookVars, lifeVars>>
    /\ UNCHANGED <<retried, head>>

\* await db.commit(): every write of the session at once.
ProdCommit ==
    /\ txn.phase = "added"
    /\ claims' = [c \in txn.inserts |-> NewClaim] @@ claims
    /\ content' = [c \in txn.inserts |-> 1] @@
                  [c \in DOMAIN content |-> IF c \in txn.updates THEN content[c] + 1
                                            ELSE content[c]]
    /\ outbox' = NewRows(txn) @@ outbox
    /\ hist' = [i \in DOMAIN NewRows(txn) |-> NoHist] @@ hist
    /\ nextId' = nextId + Len(txn.entries)
    /\ txn' = [txn EXCEPT !.phase = "committed"]
    /\ UNCHANGED <<locks, forge, pc, batch, idx, res, prov, hookVars, lifeVars>>
    /\ UNCHANGED <<retried, head>>

\* The request ends before its commit took effect: the session is closed
\* and rolls back.
ProdAbort ==
    /\ txn.phase \in {"flushed", "added"}
    /\ txn' = [txn EXCEPT !.phase = "aborted"]
    /\ UNCHANGED <<outbox, nextId, claims, forge, workerVars, prov, hookVars, lifeVars, content>>

\* ------------------------------------------------------------------------
\* OutboxWorker
\* ------------------------------------------------------------------------
\* The claiming SELECT without FOR UPDATE SKIP LOCKED.
Claimable_NoRowLock(w) ==
    LET ids == {i \in DOMAIN outbox : outbox[i].status = "pending"}
        ord == SetToSortedSeq(ids)
    IN  SubSeq(ord, 1, Min(BATCH_SIZE, Len(ord)))

\* The claiming SELECT also returning exhausted entries.
Claimable_RetryFailed(w) ==
    LET ids == {i \in DOMAIN outbox : outbox[i].status \in {"pending", "failed"}
                                      /\ i \notin DOMAIN locks}
        ord == SetToSortedSeq(ids)
    IN  SubSeq(ord, 1, Min(BATCH_SIZE, Len(ord)))

\* A claiming SELECT without LIMIT.
Claimable_NoLimit(w) ==
    LET ids == {i \in DOMAIN outbox : outbox[i].status = "pending" /\ i \notin DOMAIN locks}
    IN  SetToSortedSeq(ids)

\* A claiming SELECT that also takes entries in processing.
Claimable_TakesProcessing(w) ==
    LET ids == {i \in DOMAIN outbox : outbox[i].status \in {"pending", "processing"}
                                      /\ i \notin DOMAIN locks}
        ord == SetToSortedSeq(ids)
    IN  SubSeq(ord, 1, Min(BATCH_SIZE, Len(ord)))

\* A claiming SELECT that waits for retry_after.
Claimable_AfterRetryAfter(w) ==
    LET ids == {i \in DOMAIN outbox : /\ outbox[i].status = "pending"
                                      /\ i \notin DOMAIN locks
                                      /\ outbox[i].retry_after <= Now}
        ord == SetToSortedSeq(ids)
    IN  SubSeq(ord, 1, Min(BATCH_SIZE, Len(ord)))

\* Rows the claiming SELECT returns: pending, not locked by another
\* transaction (SKIP LOCKED), oldest first, at most BATCH_SIZE.
Claimable(w) ==
    LET ids == {i \in DOMAIN outbox : outbox[i].status = "pending" /\ i \notin DOMAIN locks}
        ord == SetToSortedSeq(ids)
    IN  SubSeq(ord, 1, Min(BATCH_SIZE, Len(ord)))

\* _process_batch, the SELECT ... FOR UPDATE SKIP LOCKED: the rows are
\* loaded into entries and stay locked until the transaction ends.
ClaimSelect(w) ==
    /\ pc[w] = "idle"
    /\ LET sel == Claimable(w)
       IN  /\ sel # <<>>
           /\ batch' = [batch EXCEPT ![w] = [i \in 1..Len(sel) |-> outbox[sel[i]]]]
           /\ locks' = [i \in {sel[j] : j \in 1..Len(sel)} |-> w] @@ locks
    /\ pc' = [pc EXCEPT ![w] = "claimed"]
    /\ UNCHANGED <<outbox, nextId, claims, forge, idx, res, hist>>
    /\ UNCHANGED <<prov, hookVars, lifeVars, prodVars>>
    /\ UNCHANGED head
    /\ retried' = [v \in DOMAIN retried |-> IF v = w THEN {} ELSE retried[v]]

\* _process_batch, UPDATE ... SET status = 'processing' WHERE id IN (...)
\* and the commit that ends the claiming transaction.
ClaimCommit(w) ==
    /\ pc[w] = "claimed"
    /\ outbox' = [i \in DOMAIN outbox |->
                    IF i \in SeqIds(batch[w])
                    THEN [outbox[i] EXCEPT !.status = "processing"]
                    ELSE outbox[i]]
    /\ locks' = [i \in {j \in DOMAIN locks : locks[j] # w} |-> locks[i]]
    /\ pc' = [pc EXCEPT ![w] = "dispatch"]
    /\ idx' = [idx EXCEPT ![w] = 1]
    /\ UNCHANGED <<nextId, claims, forge, batch, res, hist>>
    /\ UNCHANGED <<prov, hookVars, lifeVars, prodVars>>
    /\ UNCHANGED <<retried, head>>

Entry(w) == batch[w][idx[w]]

\* The entry whose content is at the head of each followed repository when
\* the handler of entry e has taken the store to f: commit_files wrote the
\* content of e's payload if it made a commit.
HeadAfter(f, e) ==
    [c \in DOMAIN head |-> IF f[c].commits > forge[c].commits THEN e.id ELSE head[c]]

\* A dispatch whose handler writes back although a call raised.
Dispatch_WriteBackOnError(w, failAt, rejectDup) ==
    /\ pc[w] = "dispatch"
    /\ LET r == _dispatch(StartCalls(forge, failAt, rejectDup), Entry(w))
           id == Entry(w).id
       IN  /\ forge' = r.forge
           /\ res' = [res EXCEPT ![w] = [ok |-> r.ok, err |-> r.err,
                                         repo_id |-> r.repo_id, sha |-> r.sha,
                                         n |-> r.n, calls |-> r.calls]]
           /\ hist' = [hist EXCEPT ![id].dispatched = @ + 1,
                                   ![id].raised = IF r.ok THEN @ ELSE @ + 1]
           /\ pc' = [pc EXCEPT ![w] = IF WritesBack(Entry(w).operation)
                                      THEN "writeback" ELSE "record"]
    /\ UNCHANGED <<outbox, nextId, locks, claims, batch, idx>>
    /\ UNCHANGED <<prov, hookVars, lifeVars, prodVars>>
    /\ UNCHANGED retried
    /\ head' = HeadAfter(forge', Entry(w))

\* _process_entry, await self._dispatch(entry): the handler's calls to the
\* external store, up to the first exception.
Dispatch(w, failAt, rejectDup) ==
    /\ pc[w] = "dispatch"
    /\ LET r == _dispatch(StartCalls(forge, failAt, rejectDup), Entry(w))
           id == Entry(w).id
       IN  /\ forge' = r.forge
           /\ res' = [res EXCEPT ![w] = [ok |-> r.ok, err |-> r.err,
                                         repo_id |-> r.repo_id, sha |-> r.sha,
                                         n |-> r.n, calls |-> r.calls]]
           /\ hist' = [hist EXCEPT ![id].dispatched = @ + 1,
                                   ![id].raised = IF r.ok THEN @ ELSE @ + 1]
           /\ pc' = [pc EXCEPT ![w] = IF r.ok /\ WritesBack(Entry(w).operation)
                                      THEN "writeback" ELSE "record"]
    /\ UNCHANGED <<outbox, nextId, locks, claims, batch, idx>>
    /\ UNCHANGED <<prov, hookVars, lifeVars, prodVars>>
    /\ UNCHANGED retried
    /\ head' = HeadAfter(forge', Entry(w))

\* The handler's own session: UPDATE claims ... and commit.
WriteBack(w) ==
    /\ pc[w] = "writeback"
    /\ claims' = WriteBackRow(claims, Entry(w), res[w])
    /\ pc' = [pc EXCEPT ![w] = "record"]
    /\ UNCHANGED <<outbox, nextId, locks, forge, batch, idx, res, hist>>
    /\ UNCHANGED <<prov, hookVars, lifeVars, prodVars>>
    /\ UNCHANGED <<retried, head>>

\* Completion that forgets to count the attempt.
MarkCompleted_NoIncrement(row, entry) ==
    [row EXCEPT !.status = "completed", !.processed_at = Now]

\* Completion that forgets the completion time.
MarkCompleted_NoProcessedAt(row, entry) ==
    [row EXCEPT !.status = "completed", !.attempts = entry.attempts + 1]

\* _process_entry, "Mark completed": values written by the UPDATE.
MarkCompleted(row, entry) ==
    [row EXCEPT !.status = "completed", !.processed_at = Now,
                !.attempts = entry.attempts + 1]

\* Retry that never gives up.
_mark_retry_AlwaysPending(row, entry, error) ==
    [row EXCEPT !.status = "pending", !.attempts = entry.attempts + 1,
                !.last_error = error]

\* Retry that gives up one attempt early.
_mark_retry_EarlyFail(row, entry, error) ==
    LET new_attempts == entry.attempts + 1
        new_status == IF new_attempts + 1 >= entry.max_attempts THEN "failed" ELSE "pending"
    IN  [row EXCEPT !.status = new_status, !.attempts = new_attempts,
                    !.last_error = error]

\* Retry that gives up one attempt late (> for >=).
_mark_retry_Gt(row, entry, error) ==
    LET new_attempts == entry.attempts + 1
        new_status == IF new_attempts > entry.max_attempts THEN "failed" ELSE "pending"
    IN  [row EXCEPT !.status = new_status, !.attempts = new_attempts,
                    !.last_error = error]

\* Retry that gives up at once on a local validation error.
_mark_retry_ValueErrorFails(row, entry, error) ==
    LET new_attempts == entry.attempts + 1
        new_status == IF new_attempts >= entry.max_attempts \/ error = "ValueError"
                      THEN "failed" ELSE "pending"
    IN  [row EXCEPT !.status = new_status, !.attempts = new_attempts,
                    !.last_error = error]

\* _mark_retry: values written by the UPDATE.
_mark_retry(row, entry, error) ==
    LET new_attempts == entry.attempts + 1
        new_status == IF new_attempts >= entry.max_attempts THEN "failed" ELSE "pending"
    IN  [row EXCEPT !.status = new_status, !.attempts = new_attempts,
                    !.last_error = error]

\* Going on with the next entry before the outcome of this one is written.
Record_NoOutcome(w) ==
    /\ pc[w] = "record"
    /\ outbox' = outbox
    /\ IF idx[w] < Len(batch[w])
       THEN /\ idx' = [idx EXCEPT ![w] = @ + 1]
            /\ pc' = [pc EXCEPT ![w] = "dispatch"]
            /\ batch' = batch
       ELSE /\ idx' = [idx EXCEPT ![w] = 0]
            /\ pc' = [pc EXCEPT ![w] = "idle"]
            /\ batch' = [batch EXCEPT ![w] = <<>>]
    /\ res' = [res EXCEPT ![w] = NoRes]
    /\ UNCHANGED <<nextId, locks, claims, forge, hist>>
    /\ UNCHANGED <<prov, hookVars, lifeVars, prodVars>>
    /\ UNCHANGED head
    /\ retried' = [v \in DOMAIN retried |->
                    IF v = w /\ Entry(w).id \in DOMAIN outbox /\ ~res[w].ok
                       /\ outbox'[Entry(w).id].status = "pending"
                    THEN retried[v] \cup {Entry(w).id} ELSE retried[v]]

\* _process_entry after the handler: the outcome UPDATE ... WHERE id =
\* entry.id and its commit, then the next entry of the batch.
Record(w) ==
    /\ pc[w] = "record"
    /\ LET e == Entry(w)
       IN  outbox' = IF e.id \notin DOMAIN outbox THEN outbox
                     ELSE IF res[w].ok
                          THEN [outbox EXCEPT ![e.id] = MarkCompleted(@, e)]
                          ELSE [outbox EXCEPT ![e.id] = _mark_retry(@, e, res[w].err)]
    /\ IF idx[w] < Len(batch[w])
       THEN /\ idx' = [idx EXCEPT ![w] = @ + 1]
            /\ pc' = [pc EXCEPT ![w] = "dispatch"]
            /\ batch' = batch
       ELSE /\ idx' = [idx EXCEPT ![w] = 0]
            /\ pc' = [pc EXCEPT ![w] = "idle"]
            /\ batch' = [batch EXCEPT ![w] = <<>>]
    /\ res' = [res EXCEPT ![w] = NoRes]
    /\ UNCHANGED <<nextId, locks, claims, forge, hist>>
    /\ UNCHANGED <<prov, hookVars, lifeVars, prodVars>>
    /\ UNCHANGED head
    /\ retried' = [v \in DOMAIN retried |->
                    IF v = w /\ Entry(w).id \in DOMAIN outbox /\ ~res[w].ok
                       /\ outbox'[Entry(w).id].status = "pending"
                    THEN retried[v] \cup {Entry(w).id} ELSE retried[v]]

\* _process_entry when the commit of the completion UPDATE raises: the
\* exception is caught by "except Exception" and _mark_retry writes the row
\* in a new transaction of the same session.
RecordCommitError(w) ==
    /\ pc[w] = "record"
    /\ res[w].ok
    /\ LET e == Entry(w)
       IN  outbox' = IF e.id \notin DOMAIN outbox THEN outbox
                     ELSE [outbox EXCEPT ![e.id] = _mark_retry(@, e, "db_error")]
    /\ IF idx[w] < Len(batch[w])
       THEN /\ idx' = [idx EXCEPT ![w] = @ + 1]
            /\ pc' = [pc EXCEPT ![w] = "dispatch"]
            /\ batch' = batch
       ELSE /\ idx' = [idx EXCEPT ![w] = 0]
            /\ pc' = [pc EXCEPT ![w] = "idle"]
            /\ batch' = [batch EXCEPT ![w] = <<>>]
    /\ res' = [res EXCEPT ![w] = NoRes]
    /\ UNCHANGED <<nextId, locks, claims, forge, hist>>
    /\ UNCHANGED <<prov, hookVars, lifeVars, prodVars>>
    /\ UNCHANGED head
    /\ retried' = [v \in DOMAIN retried |->
                    IF v = w /\ Entry(w).id \in DOMAIN outbox
                       /\ outbox'[Entry(w).id].status = "pending"
                    THEN retried[v] \cup {Entry(w).id} ELSE retried[v]]

\* An exception that ends the poll-loop task.
RecordError_EndsTask(w) ==
    /\ pc[w] = "record"
    /\ idx' = [idx EXCEPT ![w] = 0]
    /\ pc' = [pc EXCEPT ![w] = "done"]
    /\ batch' = [batch EXCEPT ![w] = <<>>]
    /\ res' = [res EXCEPT ![w] = NoRes]
    /\ UNCHANGED <<outbox, nextId, locks, claims, forge, hist>>
    /\ UNCHANGED <<prov, hookVars, lifeVars, prodVars>>
    /\ UNCHANGED <<retried, head>>

\* _process_entry when the outcome UPDATE and _mark_retry both raise: the
\* exception leaves _process_entry and _process_batch; _poll_loop (except
\* Exception) logs it and sleeps for _POLL_INTERVAL; no row is written.
RecordError(w) ==
    /\ pc[w] = "record"
    /\ idx' = [idx EXCEPT ![w] = 0]
    /\ pc' = [pc EXCEPT ![w] = "sleeping"]
    /\ batch' = [batch EXCEPT ![w] = <<>>]
    /\ res' = [res EXCEPT ![w] = NoRes]
    /\ UNCHANGED <<outbox, nextId, locks, claims, forge, hist>>
    /\ UNCHANGED <<prov, hookVars, lifeVars, prodVars>>
    /\ UNCHANGED <<retried, head>>

\* _poll_loop, processed == 0: the poll found no claimable entry and the
\* loop sleeps for _POLL_INTERVAL.
PollEmpty(w) ==
    /\ pc[w] = "idle"
    /\ Claimable(w) = <<>>
    /\ pc' = [pc EXCEPT ![w] = "sleeping"]
    /\ UNCHANGED <<outbox, nextId, locks, claims, forge, batch, idx, res, hist, retried, head>>
    /\ UNCHANGED <<prov, hookVars, lifeVars, prodVars>>

\* _process_batch raises before an entry is processed (the SELECT, the
\* UPDATE or the commit failed): the session is closed, its transaction
\* rolled back and its row locks released; _poll_loop logs and sleeps.
PollError(w) ==
    /\ pc[w] \in {"idle", "claimed"}
    /\ locks' = [i \in {j \in DOMAIN locks : locks[j] # w} |-> locks[i]]
    /\ batch' = [batch EXCEPT ![w] = <<>>]
    /\ pc' = [pc EXCEPT ![w] = "sleeping"]
    /\ UNCHANGED <<outbox, nextId, claims, forge, idx, res, hist, retried, head>>
    /\ UNCHANGED <<prov, hookVars, lifeVars, prodVars>>

\* asyncio.sleep(_POLL_INTERVAL) returns: the next iteration of the loop.
Wake(w) ==
    /\ pc[w] = "sleeping"
    /\ pc' = [pc EXCEPT ![w] = "idle"]
    /\ retried' = [v \in DOMAIN retried |-> IF v = w THEN {} ELSE retried[v]]
    /\ UNCHANGED <<outbox, nextId, locks, claims, forge, batch, idx, res, hist>>
    /\ UNCHANGED <<prov, hookVars, lifeVars, prodVars>>
    /\ UNCHANGED head

\* The worker process dies and a new one is started: the database closes
\* its connection (open transaction rolled back, row locks released), the
\* entries list is gone, the new process starts at its first poll.  failAt:
\* the service call that was in flight when the process died in a handler.
Crash(w, failAt) ==
    /\ pc[w] \in {"claimed", "dispatch", "writeback", "record"}
    /\ locks' = [i \in {j \in DOMAIN locks : locks[j] # w} |-> locks[i]]
    /\ forge' = IF pc[w] = "dispatch"
                THEN _dispatch(StartCalls(forge, failAt, FALSE), Entry(w)).forge
                ELSE forge
    /\ hist' = IF pc[w] = "dispatch"
               THEN [hist EXCEPT ![Entry(w).id].dispatched = @ + 1]
               ELSE hist
    /\ pc' = [pc EXCEPT ![w] = "idle"]
    /\ batch' = [batch EXCEPT ![w] = <<>>]
    /\ idx' = [idx EXCEPT ![w] = 0]
    /\ res' = [res EXCEPT ![w] = NoRes]
    /\ UNCHANGED <<outbox, nextId, claims, retried>>
    /\ UNCHANGED <<prov, hookVars, lifeVars, prodVars>>
    /\ head' = IF pc[w] = "dispatch" THEN HeadAfter(forge', Entry(w)) ELSE head

\* ------------------------------------------------------------------------
\* Operator surface
\* ------------------------------------------------------------------------
\* debug_clear_outbox: DELETE FROM outbox WHERE status != 'completed', then
\* every provisioning claim becomes error; the DELETE waits for row locks.
BulkClear ==
    /\ DOMAIN locks = {}
    /\ \/ \E i \in DOMAIN outbox : outbox[i].status # "completed"
       \/ \E c \in DOMAIN claims : claims[c].repo_status = "provisioning"
    /\ outbox' = [i \in {j \in DOMAIN outbox : outbox[j].status = "completed"} |-> outbox[i]]
    /\ claims' = [c \in DOMAIN claims |->
                    IF claims[c].repo_status = "provisioning"
                    THEN [claims[c] EXCEPT !.repo_status = "error"]
                    ELSE claims[c]]
    /\ UNCHANGED <<nextId, locks, forge, pc, batch, idx, res, hist>>
    /\ UNCHANGED <<prov, hookVars, lifeVars, prodVars>>
    /\ UNCHANGED <<retried, head>>

\* ------------------------------------------------------------------------
\* The provision handler run twice for one claim
\* ------------------------------------------------------------------------
NoRun == [phase |-> 0, fmt |-> "markdown", crashAt |-> 0, ok |-> FALSE]

\* The payload create_claim enqueues for claim c.
ProvisionPayload(c, fmt) == NewEntry(0, "create_repo", c, fmt, 1).payload

\* First run of _handle_create_repo for claim c.  The process dies before
\* service call crashAt (1..MaxCalls), before the write-back (MaxCalls + 1),
\* or runs to the end (0).
ProvisionRun1(c, fmt, crashAt) ==
    /\ prov[c].phase = 0
    /\ LET r == _handle_create_repo(StartCalls(forge, crashAt, FALSE), ProvisionPayload(c, fmt))
       IN  /\ forge' = r.forge
           /\ claims' = IF crashAt = 0 /\ r.ok
                        THEN WriteBackRow(claims, [operation |-> "create_repo",
                                                   payload |-> ProvisionPayload(c, fmt)], r)
                        ELSE claims
    /\ prov' = [prov EXCEPT ![c] = [phase |-> 1, fmt |-> fmt, crashAt |-> crashAt, ok |-> FALSE]]
    /\ UNCHANGED <<outbox, nextId, workerVars, hookVars, lifeVars, prodVars>>

\* Second run for the same claim and payload, with the store reachable.
ProvisionRun2(c, rejectDup) ==
    /\ prov[c].phase = 1
    /\ LET pl == ProvisionPayload(c, prov[c].fmt)
           r == _handle_create_repo(StartCalls(forge, 0, rejectDup), pl)
       IN  /\ forge' = r.forge
           /\ claims' = IF r.ok
                        THEN WriteBackRow(claims, [operation |-> "create_repo", payload |-> pl], r)
                        ELSE claims
           /\ prov' = [prov EXCEPT ![c].phase = 2, ![c].ok = r.ok]
    /\ UNCHANGED <<outbox, nextId, workerVars, hookVars, lifeVars, prodVars>>

\* ------------------------------------------------------------------------
\* Webhook receiver
\* ------------------------------------------------------------------------
\* payload["after"] of a deletion push: "0" * 40.
ZeroSha == 0 - 1

\* payload.get("after", "") of a payload without the key.
EmptySha == 0 - 2

\* hmac.new(key, body, sha256): a keyed digest, different for different
\* keys or bodies.
Hmac(key, body) == <<key, body>>

\* .hexdigest(): an ASCII string.
HexDigest(mac) == [ascii |-> TRUE, hex |-> mac]

\* request.headers.get("X-Forgejo-Signature", "") without the header.
EmptySignature == [ascii |-> TRUE, hex |-> <<>>]

\* A header value with a byte above 0x7f (headers are decoded as latin-1).
NonAsciiSignature == [ascii |-> FALSE, hex |-> <<>>]

\* hmac.compare_digest on two str: TypeError unless both are ASCII.
compare_digest(a, b) ==
    IF ~a.ascii \/ ~b.ascii THEN "TypeError"
    ELSE IF a = b THEN "true" ELSE "false"

\* Verification without the check for an unconfigured secret.
_verify_signature_NoSecretCheck(body, signature, key) ==
    compare_digest(HexDigest(Hmac(key, body)), signature)

_verify_signature(body, signature, key) ==
    IF key = "" THEN "false"
    ELSE compare_digest(HexDigest(Hmac(key, body)), signature)

NoRequest == [n |-> 0]

MainRef == "refs/heads/main"

\* _handle_push without the test for the all-zero revision.
PushIgnored_NoZeroCheck(body) ==
    \/ ~body.repo.uuid
    \/ body.after = EmptySha
    \/ body.ref # MainRef

\* _handle_push with the test of the ref inverted.
PushIgnored_InvertedRef(body) ==
    \/ ~body.repo.uuid
    \/ body.after = EmptySha \/ body.after = ZeroSha
    \/ body.ref = MainRef

\* _handle_push returns before the UPDATE.
PushIgnored(body) ==
    \/ ~body.repo.uuid
    \/ body.after = EmptySha \/ body.after = ZeroSha
    \/ body.ref # MainRef

\* handle_forgejo_webhook (with _handle_push) for one request.
Webhook(rq) ==
    /\ req' = [rq EXCEPT !.n = req.n + 1]
    /\ LET v == _verify_signature(rq.body, rq.signature, secret)
       IN  IF v = "TypeError"
           THEN /\ resp' = 500
                /\ UNCHANGED <<claims, events, writes>>
           ELSE IF v = "false"
           THEN /\ resp' = 401
                /\ UNCHANGED <<claims, events, writes>>
           ELSE /\ resp' = 200
                /\ IF rq.event # "push" \/ PushIgnored(rq.body)
                   THEN UNCHANGED <<claims, events, writes>>
                   ELSE LET c == rq.body.repo.id
                        IN  /\ claims' = IF c \in DOMAIN claims
                                         THEN [claims EXCEPT ![c].current_head_sha = rq.body.after]
                                         ELSE claims
                            /\ writes' = writes + 1
                            /\ events' = Append(events, [claim_id |-> c,
                                                         head_sha |-> rq.body.after,
                                                         ref |-> rq.body.ref])
    /\ UNCHANGED <<outbox, nextId, forge, workerVars, prov, secret, notify, lifeVars, prodVars>>

\* ------------------------------------------------------------------------
\* Worker life cycle: start() and stop()
\* ------------------------------------------------------------------------
\* After start(): _running is set and the poll-loop task exists.
Started ==
    /\ running = [w \in Workers |-> TRUE]
    /\ cancelled = [w \in Workers |-> FALSE]
    /\ stopPc = [w \in Workers |-> "none"]
    /\ closed = [w \in Workers |-> FALSE]

\* stop() up to "await self._task": _running = False and task.cancel().
Stop(w) ==
    /\ stopPc[w] = "none"
    /\ running' = [running EXCEPT ![w] = FALSE]
    /\ cancelled' = [cancelled EXCEPT ![w] = pc[w] # "done"]
    /\ stopPc' = [stopPc EXCEPT ![w] = "awaiting"]
    /\ UNCHANGED <<outbox, nextId, claims, forge, workerVars, prov, hookVars, closed, prodVars>>

\* CancelledError is thrown into the poll-loop task at the await it is
\* suspended in.  Only "except asyncio.CancelledError: break" of _poll_loop
\* catches it, so the task ends.  failAt: the service call of the handler
\* that was in flight.  took: whether the database commit in flight had
\* reached the server.
Cancelled(w, failAt, took) ==
    /\ cancelled[w] /\ pc[w] # "done"
    /\ cancelled' = [cancelled EXCEPT ![w] = FALSE]
    /\ pc' = [pc EXCEPT ![w] = "done"]
    /\ batch' = [batch EXCEPT ![w] = <<>>]
    /\ idx' = [idx EXCEPT ![w] = 0]
    /\ res' = [res EXCEPT ![w] = NoRes]
    /\ locks' = [i \in {j \in DOMAIN locks : locks[j] # w} |-> locks[i]]
    /\ forge' = IF pc[w] = "dispatch"
                THEN _dispatch(StartCalls(forge, failAt, FALSE), Entry(w)).forge
                ELSE forge
    /\ hist' = IF pc[w] = "dispatch"
               THEN [hist EXCEPT ![Entry(w).id].dispatched = @ + 1]
               ELSE hist
    /\ claims' = IF pc[w] = "writeback" /\ took
                 THEN WriteBackRow(claims, Entry(w), res[w])
                 ELSE claims
    /\ outbox' = IF pc[w] = "record" /\ took /\ Entry(w).id \in DOMAIN outbox
                 THEN IF res[w].ok
                      THEN [outbox EXCEPT ![Entry(w).id] = MarkCompleted(@, Entry(w))]
                      ELSE [outbox EXCEPT ![Entry(w).id] = _mark_retry(@, Entry(w), res[w].err)]
                 ELSE outbox
    /\ UNCHANGED <<nextId, prov, hookVars, running, stopPc, closed, prodVars>>
    /\ UNCHANGED retried
    /\ head' = IF pc[w] = "dispatch" THEN HeadAfter(forge', Entry(w)) ELSE head

\* stop() closing the client although the task has not ended.
StopClose_NoAwait(w) ==
    /\ stopPc[w] = "awaiting"
    /\ closed' = [closed EXCEPT ![w] = TRUE]
    /\ stopPc' = [stopPc EXCEPT ![w] = "returned"]
    /\ UNCHANGED <<outbox, nextId, claims, forge, workerVars, prov, hookVars, running, cancelled, prodVars>>

\* stop() from "await self._task" on: the task has ended, the client is
\* closed and stop() returns.
StopClose(w) ==
    /\ stopPc[w] = "awaiting"
    /\ pc[w] = "done"
    /\ closed' = [closed EXCEPT ![w] = TRUE]
    /\ stopPc' = [stopPc EXCEPT ![w] = "returned"]
    /\ UNCHANGED <<outbox, nextId, claims, forge, workerVars, prov, hookVars, running, cancelled, prodVars>>

\* ------------------------------------------------------------------------
\* Event dispatcher
\* ------------------------------------------------------------------------
_DISPATCH_SEMAPHORE == 10

_MAX_EXTENSIONS_PER_EVENT == 50

\* created: the extensions for which the last event started a task; source:
\* the extension that caused it; waiting: tasks not yet inside the
\* semaphore; inflight: tasks inside it; n: events dispatched.
NoTasks == [created |-> <<>>, source |-> NULL, waiting |-> 0, inflight |-> 0, n |-> 0]

\* dispatch_event without the cap on the extensions of one event.
dispatch_event_NoCap(extensions, source_extension_id) ==
    IF extensions = <<>> THEN <<>>
    ELSE IF source_extension_id # NULL
         THEN SelectSeq(extensions, LAMBDA e : e # source_extension_id)
         ELSE extensions

\* dispatch_event: the extensions a task is created for, given the list of
\* the subscribed ones (list_by_event).
dispatch_event(extensions, source_extension_id) ==
    IF extensions = <<>> THEN <<>>
    ELSE LET others == IF source_extension_id # NULL
                       THEN SelectSeq(extensions, LAMBDA e : e # source_extension_id)
                       ELSE extensions
         IN  IF Len(others) > _MAX_EXTENSIONS_PER_EVENT
             THEN SubSeq(others, 1, _MAX_EXTENSIONS_PER_EVENT)
             ELSE others

\* A request handler awaits dispatch_event for an event to which the
\* extensions 1..subscribed are subscribed.
DispatchEvent(subscribed, source) ==
    /\ notify.n < MaxEvents
    /\ LET tasks == dispatch_event([i \in 1..subscribed |-> i], source)
       IN  notify' = [notify EXCEPT !.created = tasks, !.source = source,
                                    !.waiting = @ + Len(tasks), !.n = @ + 1]
    /\ UNCHANGED <<outbox, nextId, claims, forge, workerVars, prov, lifeVars, prodVars>>
    /\ UNCHANGED <<secret, req, resp, events, writes>>

\* A semaphore that admits one task too many.
NotifyEnter_OneMore ==
    /\ notify.waiting > 0
    /\ notify.inflight <= _DISPATCH_SEMAPHORE
    /\ notify' = [notify EXCEPT !.waiting = @ - 1, !.inflight = @ + 1]
    /\ UNCHANGED <<outbox, nextId, claims, forge, workerVars, prov, lifeVars, prodVars>>
    /\ UNCHANGED <<secret, req, resp, events, writes>>

\* _notify_extension, async with _DISPATCH_SEMAPHORE: a task enters when
\* fewer than 10 are inside.
NotifyEnter ==
    /\ notify.waiting > 0
    /\ notify.inflight < _DISPATCH_SEMAPHORE
    /\ notify' = [notify EXCEPT !.waiting = @ - 1, !.inflight = @ + 1]
    /\ UNCHANGED <<outbox, nextId, claims, forge, workerVars, prov, lifeVars, prodVars>>
    /\ UNCHANGED <<secret, req, resp, events, writes>>

\* _notify_extension ends (answer, error answer or exception, all caught):
\* the semaphore is released.
NotifyExit ==
    /\ notify.inflight > 0
    /\ notify' = [notify EXCEPT !.inflight = @ - 1]
    /\ UNCHANGED <<outbox, nextId, claims, forge, workerVars, prov, lifeVars, prodVars>>
    /\ UNCHANGED <<secret, req, resp, events, writes>>

\* ------------------------------------------------------------------------
\* Specification
\* ------------------------------------------------------------------------
Init ==
    /\ outbox = <<>>
    /\ nextId = 0
    /\ locks = <<>>
    /\ claims = <<>>
    /\ forge = [c \in ClaimIds |-> NoRepo]
    /\ pc = [w \in Workers |-> "idle"]
    /\ batch = [w \in Workers |-> <<>>]
    /\ idx = [w \in Workers |-> 0]
    /\ res = [w \in Workers |-> NoRes]
    /\ hist = <<>>
    /\ prov = [c \in ClaimIds |-> NoRun]
    /\ secret = "k1"
    /\ req = NoRequest
    /\ resp = 0
    /\ events = <<>>
    /\ writes = 0
    /\ notify = NoTasks
    /\ Started
    /\ retried = <<>>
    /\ head = <<>>
    /\ txn = NoTxn
    /\ content = [c \in DOMAIN claims |-> 1]

\* The service calls a handler makes are numbered 1..MaxCalls.
MaxCalls == 4

Produce ==
    \E c \in ClaimIds, fmt \in FormatInputs, k \in 1..MaxAttemptsBound :
        CreateClaim(c, fmt, k) \/ UpdateClaim(c, fmt, k)

WorkerStep(w) ==
    \/ ClaimSelect(w)
    \/ ClaimCommit(w)
    \/ \E failAt \in 0..MaxCalls, rejectDup \in BOOLEAN : Dispatch(w, failAt, rejectDup)
    \/ WriteBack(w)
    \/ Record(w)

Next ==
    \/ Produce
    \/ \E w \in Workers : WorkerStep(w)
    \/ BulkClear

Spec == Init /\ [][Next]_vars

\* The producers, the workers and the operator, with database errors in the
\* workers' outcome updates.
DbErrorNext ==
    \/ Next
    \/ \E w \in Workers : RecordCommitError(w) \/ RecordError(w) \/ Wake(w)

SpecDbError == Init /\ [][DbErrorNext]_vars

\* The producers and the workers, each worker stopped at any moment.
StopNext ==
    \/ Produce
    \/ \E w \in Workers :
          \/ /\ ~cancelled[w]
             /\ \/ running[w] /\ ClaimSelect(w)
                \/ ClaimCommit(w)
                \/ \E failAt \in 0..MaxCalls, rejectDup \in BOOLEAN : Dispatch(w, failAt, rejectDup)
                \/ WriteBack(w)
                \/ Record(w)
          \/ Stop(w)
          \/ \E failAt \in 1..MaxCalls, took \in BOOLEAN : Cancelled(w, failAt, took)
          \/ StopClose(w)

SpecStop == Init /\ [][StopNext]_vars

\* The producers' requests, one at a time, each committed or abandoned.
ProducerNext ==
    \/ \E S \in SUBSET ClaimIds, fmt \in FormatInputs, k \in 1..MaxAttemptsBound :
          ProdFlush(S, fmt, k)
    \/ ProdAddEntries
    \/ \E c \in ClaimIds, fmt \in FormatInputs, k \in 1..MaxAttemptsBound,
          hasContent \in BOOLEAN : ProdUpdate(c, fmt, k, hasContent)
    \/ ProdCommit
    \/ ProdAbort

SpecProducer == Init /\ [][ProducerNext]_vars

\* A row whose operation column (a string, where the enumeration is not
\* enforced) holds none of the six operations, among the producers' entries.
UnknownOpInit ==
    /\ \E k \in 1..MaxAttemptsBound :
          outbox = (1 :> NewEntry(1, "archive_repo", 1, "markdown", k))
    /\ nextId = 1
    /\ locks = <<>>
    /\ claims = (1 :> [repo_status |-> "ready", forgejo_repo_id |-> RepoId(1),
                       current_head_sha |-> 1])
    /\ forge = [c \in ClaimIds |->
                  IF c = 1
                  THEN [exists |-> TRUE, commits |-> 1, files |-> {"claim.md"},
                        protections |-> 1, hooks |-> 1, branches |-> {MainBranch}]
                  ELSE NoRepo]
    /\ pc = [w \in Workers |-> "idle"]
    /\ batch = [w \in Workers |-> <<>>]
    /\ idx = [w \in Workers |-> 0]
    /\ res = [w \in Workers |-> NoRes]
    /\ hist = (1 :> NoHist)
    /\ prov = [c \in ClaimIds |-> NoRun]
    /\ secret = "k1"
    /\ req = NoRequest
    /\ resp = 0
    /\ events = <<>>
    /\ writes = 0
    /\ notify = NoTasks
    /\ Started
    /\ retried = <<>>
    /\ head = <<>>
    /\ txn = NoTxn
    /\ content = [c \in DOMAIN claims |-> 1]

SpecUnknownOp == UnknownOpInit /\ [][Next]_vars

\* Two entries of any operation, for a provisioned claim (1) and for a claim
\* without a repository (2), so that the handlers raise every kind of
\* exception: unavailable, not found, conflict, API error, ValueError.
EntryShapes(id) ==
    {NewEntry(id, op, c, fmt, k) :
        op \in {"create_repo", "commit_files", "archive_repo"}, c \in ClaimIds,
        fmt \in FormatInputs, k \in 1..MaxAttemptsBound}
    \cup {BranchEntry(id, "create_branch", 1, MainBranch, MainBranch, k) :
             k \in 1..MaxAttemptsBound}

KindsInit ==
    /\ \E e1 \in EntryShapes(1), e2 \in EntryShapes(2) : outbox = (1 :> e1) @@ (2 :> e2)
    /\ nextId = 2
    /\ locks = <<>>
    /\ claims = (1 :> [repo_status |-> "ready", forgejo_repo_id |-> RepoId(1),
                       current_head_sha |-> 1]) @@ (2 :> NewClaim)
    /\ forge = [c \in ClaimIds |->
                  IF c = 1
                  THEN [exists |-> TRUE, commits |-> 1, files |-> {"claim.md"},
                        protections |-> 1, hooks |-> 1, branches |-> {MainBranch}]
                  ELSE NoRepo]
    /\ pc = [w \in Workers |-> "idle"]
    /\ batch = [w \in Workers |-> <<>>]
    /\ idx = [w \in Workers |-> 0]
    /\ res = [w \in Workers |-> NoRes]
    /\ hist = (1 :> NoHist) @@ (2 :> NoHist)
    /\ prov = [c \in ClaimIds |-> NoRun]
    /\ secret = "k1"
    /\ req = NoRequest
    /\ resp = 0
    /\ events = <<>>
    /\ writes = 0
    /\ notify = NoTasks
    /\ Started
    /\ retried = <<>>
    /\ head = <<>>
    /\ txn = NoTxn
    /\ content = [c \in DOMAIN claims |-> 1]

KindsNext == \E w \in Workers : WorkerStep(w)

SpecKinds == KindsInit /\ [][KindsNext]_vars

\* A backlog of one entry more than a batch holds: content updates of one
\* provisioned claim, each tried once.
BacklogInit ==
    /\ outbox = [i \in 1..(BATCH_SIZE + 1) |-> NewEntry(i, "commit_files", 1, "markdown", 1)]
    /\ nextId = BATCH_SIZE + 1
    /\ locks = <<>>
    /\ claims = (1 :> [repo_status |-> "ready", forgejo_repo_id |-> RepoId(1),
                       current_head_sha |-> 1])
    /\ forge = [c \in ClaimIds |->
                  IF c = 1
                  THEN [exists |-> TRUE, commits |-> 1, files |-> {"claim.md"},
                        protections |-> 1, hooks |-> 1, branches |-> {MainBranch}]
                  ELSE NoRepo]
    /\ pc = [w \in Workers |-> "idle"]
    /\ batch = [w \in Workers |-> <<>>]
    /\ idx = [w \in Workers |-> 0]
    /\ res = [w \in Workers |-> NoRes]
    /\ hist = [i \in 1..(BATCH_SIZE + 1) |-> NoHist]
    /\ prov = [c \in ClaimIds |-> NoRun]
    /\ secret = "k1"
    /\ req = NoRequest
    /\ resp = 0
    /\ events = <<>>
    /\ writes = 0
    /\ notify = NoTasks
    /\ Started
    /\ retried = <<>>
    /\ head = <<>>
    /\ txn = NoTxn
    /\ content = [c \in DOMAIN claims |-> 1]

BacklogNext ==
    \E w \in Workers :
        \/ ClaimSelect(w)
        \/ ClaimCommit(w)
        \/ \E failAt \in 0..1 : Dispatch(w, failAt, FALSE)
        \/ WriteBack(w)
        \/ Record(w)

SpecBacklog == BacklogInit /\ [][BacklogNext]_vars

\* The producers and the workers, with the sleeps of the poll loop.
PollNext ==
    \/ Produce
    \/ \E w \in Workers : WorkerStep(w) \/ PollEmpty(w) \/ Wake(w)

PollInit ==
    /\ outbox = <<>>
    /\ nextId = 0
    /\ locks = <<>>
    /\ claims = <<>>
    /\ forge = [c \in ClaimIds |-> NoRepo]
    /\ pc = [w \in Workers |-> "idle"]
    /\ batch = [w \in Workers |-> <<>>]
    /\ idx = [w \in Workers |-> 0]
    /\ res = [w \in Workers |-> NoRes]
    /\ hist = <<>>
    /\ retried = [w \in Workers |-> {}]
    /\ head = <<>>
    /\ prov = [c \in ClaimIds |-> NoRun]
    /\ secret = "k1"
    /\ req = NoRequest
    /\ resp = 0
    /\ events = <<>>
    /\ writes = 0
    /\ notify = NoTasks
    /\ Started
    /\ txn = NoTxn
    /\ content = [c \in DOMAIN claims |-> 1]

SpecPoll == PollInit /\ [][PollNext]_vars

\* The poll loop with its sleeps, database errors while claiming and while
\* recording, and stop().
LoopNext ==
    \/ \E c \in ClaimIds, k \in 1..MaxAttemptsBound : CreateClaim(c, "markdown", k)
    \/ \E w \in Workers :
          \/ /\ ~cancelled[w]
             /\ \/ running[w] /\ ClaimSelect(w)
                \/ ClaimCommit(w)
                \/ \E failAt \in 0..1 : Dispatch(w, failAt, FALSE)
                \/ WriteBack(w)
                \/ Record(w)
                \/ PollEmpty(w)
                \/ Wake(w)
                \/ PollError(w)
                \/ RecordError(w)
          \/ Stop(w)
          \/ \E failAt \in 1..MaxCalls, took \in BOOLEAN : Cancelled(w, failAt, took)
          \/ StopClose(w)

SpecLoop == Init /\ [][LoopNext]_vars

\* The producers, the workers and the operator, each worker process dying
\* at any moment.
CrashNext ==
    \/ \E c \in ClaimIds, k \in 1..MaxAttemptsBound :
          CreateClaim(c, "markdown", k) \/ UpdateClaim(c, "markdown", k)
    \/ \E w \in Workers : WorkerStep(w)
    \/ \E w \in Workers, failAt \in 1..MaxCalls : Crash(w, failAt)
    \/ BulkClear

SpecCrash == Init /\ [][CrashNext]_vars

\* A row whose retry_after column is empty or holds a time in the future
\* (the column exists, no code of the service writes it), among the
\* producers' entries.
Later == Now + 1

RetryAfterInit ==
    /\ \E k \in 1..MaxAttemptsBound, t \in {NULL, Later} :
          outbox = (1 :> [NewEntry(1, "commit_files", 1, "markdown", k)
                             EXCEPT !.retry_after = t])
    /\ nextId = 1
    /\ locks = <<>>
    /\ claims = (1 :> [repo_status |-> "ready", forgejo_repo_id |-> RepoId(1),
                       current_head_sha |-> 1])
    /\ forge = [c \in ClaimIds |->
                  IF c = 1
                  THEN [exists |-> TRUE, commits |-> 1, files |-> {"claim.md"},
                        protections |-> 1, hooks |-> 1, branches |-> {MainBranch}]
                  ELSE NoRepo]
    /\ pc = [w \in Workers |-> "idle"]
    /\ batch = [w \in Workers |-> <<>>]
    /\ idx = [w \in Workers |-> 0]
    /\ res = [w \in Workers |-> NoRes]
    /\ hist = (1 :> NoHist)
    /\ prov = [c \in ClaimIds |-> NoRun]
    /\ secret = "k1"
    /\ req = NoRequest
    /\ resp = 0
    /\ events = <<>>
    /\ writes = 0
    /\ notify = NoTasks
    /\ Started
    /\ retried = <<>>
    /\ head = <<>>
    /\ txn = NoTxn
    /\ content = [c \in DOMAIN claims |-> 1]

SpecRetryAfter == RetryAfterInit /\ [][Next]_vars

\* Events with none, one, 50, 51 or 52 subscribed extensions, caused by no
\* extension or by one of the first two.
Subscribed == {0, 1, _MAX_EXTENSIONS_PER_EVENT, _MAX_EXTENSIONS_PER_EVENT + 1,
               _MAX_EXTENSIONS_PER_EVENT + 2}

FanoutNext ==
    \/ \E subscribed \in Subscribed, source \in {NULL, 1, 2} :
          DispatchEvent(subscribed, source)
    \/ NotifyEnter
    \/ NotifyExit

SpecFanout == Init /\ [][FanoutNext]_vars

\* Every worker keeps taking steps (the event loop runs its task, the store
\* and the database answer every call); worker 1 never dies, the processes
\* of the other workers may die between the commit of a claim and the
\* outcome of an entry, and be restarted.
LiveStep(w) ==
    \/ ClaimSelect(w)
    \/ ClaimCommit(w)
    \/ \E failAt \in 0..1 : Dispatch(w, failAt, FALSE)
    \/ WriteBack(w)
    \/ Record(w)

LiveNext ==
    \/ \E c \in ClaimIds, k \in 1..MaxAttemptsBound : CreateClaim(c, "markdown", k)
    \/ \E w \in Workers : LiveStep(w)
    \/ \E w \in Workers \ {1} : pc[w] # "claimed" /\ Crash(w, 1)

SpecLive == Init /\ [][LiveNext]_vars /\ \A w \in Workers : WF_vars(LiveStep(w))

\* The push event the store sends after the commit sha on main.
SignedPush(c, sha) ==
    LET b == [repo |-> [uuid |-> TRUE, id |-> c], after |-> sha, ref |-> MainRef]
    IN  [n |-> 0, event |-> "push", body |-> b, signature |-> HexDigest(Hmac(secret, b))]

\* The producers, the workers and the operator next to the webhook receiver
\* handling one push made to a repository from outside.
OutsideSha == 9

AllNext ==
    \/ \E c \in ClaimIds, k \in 1..MaxAttemptsBound :
          CreateClaim(c, "markdown", k) \/ UpdateClaim(c, "markdown", k)
    \/ \E w \in Workers : WorkerStep(w)
    \/ BulkClear
    \/ \E c \in ClaimIds : req.n < 1 /\ Webhook(SignedPush(c, OutsideSha))

SpecAll == Init /\ [][AllNext]_vars

\* Content updates of provisioned claims, reconciled by the workers, next to
\* the store's push notifications.  The store numbers the commits of a
\* repository; the sha of a commit is its number.
Provisioned(c) ==
    [exists |-> TRUE, commits |-> 1, files |-> {"claim.md"}, protections |-> 1,
     hooks |-> 1, branches |-> {MainBranch}]

\* Pushes to claim c's repository that the receiver has handled.
Delivered(c) == Cardinality({j \in 1..Len(events) : events[j].claim_id = c})

\* The store delivers the notifications of a repository in commit order;
\* the commit made while provisioning precedes the hook.
Deliver(c) ==
    /\ forge[c].hooks >= 1
    /\ 1 + Delivered(c) < forge[c].commits
    /\ Webhook(SignedPush(c, Delivered(c) + 2))

MirrorInit ==
    /\ outbox = <<>>
    /\ nextId = 0
    /\ locks = <<>>
    /\ claims = [c \in ClaimIds |-> [repo_status |-> "ready", forgejo_repo_id |-> RepoId(c),
                                      current_head_sha |-> 1]]
    /\ forge = [c \in ClaimIds |-> Provisioned(c)]
    /\ pc = [w \in Workers |-> "idle"]
    /\ batch = [w \in Workers |-> <<>>]
    /\ idx = [w \in Workers |-> 0]
    /\ res = [w \in Workers |-> NoRes]
    /\ hist = <<>>
    /\ prov = [c \in ClaimIds |-> NoRun]
    /\ secret = "k1"
    /\ req = NoRequest
    /\ resp = 0
    /\ events = <<>>
    /\ writes = 0
    /\ notify = NoTasks
    /\ Started
    /\ retried = <<>>
    /\ head = [c \in ClaimIds |-> 0]
    /\ txn = NoTxn
    /\ content = [c \in DOMAIN claims |-> 1]

MirrorNext ==
    \/ \E c \in ClaimIds, fmt \in FormatInputs, k \in 1..MaxAttemptsBound : UpdateClaim(c, fmt, k)
    \/ \E w \in Workers :
          \/ ClaimSelect(w)
          \/ ClaimCommit(w)
          \/ \E failAt \in 0..1 : Dispatch(w, failAt, FALSE)
          \/ WriteBack(w)
          \/ Record(w)
    \/ \E c \in ClaimIds : Deliver(c)

SpecMirror == MirrorInit /\ [][MirrorNext]_vars

\* Two runs of the provision handler per claim, each claim as create_claim
\* left it.
ProvFormats == {"markdown", "latex"}

ProvInit ==
    /\ outbox = <<>>
    /\ nextId = 0
    /\ locks = <<>>
    /\ claims = [c \in ClaimIds |-> NewClaim]
    /\ forge = [c \in ClaimIds |-> NoRepo]
    /\ pc = [w \in Workers |-> "idle"]
    /\ batch = [w \in Workers |-> <<>>]
    /\ idx = [w \in Workers |-> 0]
    /\ res = [w \in Workers |-> NoRes]
    /\ hist = <<>>
    /\ prov = [c \in ClaimIds |-> NoRun]
    /\ secret = "k1"
    /\ req = NoRequest
    /\ resp = 0
    /\ events = <<>>
    /\ writes = 0
    /\ notify = NoTasks
    /\ Started
    /\ retried = <<>>
    /\ head = <<>>
    /\ txn = NoTxn
    /\ content = [c \in DOMAIN claims |-> 1]

ProvNext ==
    \/ \E c \in ClaimIds, fmt \in ProvFormats, crashAt \in 0..(MaxCalls + 1) :
          ProvisionRun1(c, fmt, crashAt)
    \/ \E c \in ClaimIds, rejectDup \in BOOLEAN : ProvisionRun2(c, rejectDup)

SpecProvision == ProvInit /\ [][ProvNext]_vars

\* One branch entry, with names of every shape, for a claim whose repository
\* exists with its default branch.
MaxRefLen == 2

RefAlphabet == {"a", ".", "/", "~", "LF"}

Refs ==
    UNION {[1..n -> RefAlphabet] : n \in 0..MaxRefLen}
        \cup {MainBranch,
              <<"a", ".", ".", "a">>,
              <<"a", "/", "a">>,
              <<"a", "/", "LF">>,
              <<"a", ".", "l", "o", "c", "k">>,
              <<"a", ".", "l", "o", "c", "k", "a">>,
              <<"a", ".", "l", "o", "c", "k", "LF">>}

RefsInit ==
    /\ \E op \in {"create_branch", "rename_branch"}, n1 \in Refs, n2 \in Refs,
          k \in 1..MaxAttemptsBound :
          outbox = (1 :> BranchEntry(1, op, 1, n1, n2, k))
    /\ nextId = 1
    /\ locks = <<>>
    /\ claims = (1 :> [repo_status |-> "ready", forgejo_repo_id |-> RepoId(1),
                       current_head_sha |-> 1])
    /\ forge = [c \in ClaimIds |->
                  IF c = 1
                  THEN [exists |-> TRUE, commits |-> 1, files |-> {"claim.md"},
                        protections |-> 1, hooks |-> 1, branches |-> {MainBranch}]
                  ELSE NoRepo]
    /\ pc = [w \in Workers |-> "idle"]
    /\ batch = [w \in Workers |-> <<>>]
    /\ idx = [w \in Workers |-> 0]
    /\ res = [w \in Workers |-> NoRes]
    /\ hist = (1 :> NoHist)
    /\ prov = [c \in ClaimIds |-> NoRun]
    /\ secret = "k1"
    /\ req = NoRequest
    /\ resp = 0
    /\ events = <<>>
    /\ writes = 0
    /\ notify = NoTasks
    /\ Started
    /\ retried = <<>>
    /\ head = <<>>
    /\ txn = NoTxn
    /\ content = [c \in DOMAIN claims |-> 1]

RefsNext ==
    \E w \in Workers :
        \/ ClaimSelect(w)
        \/ ClaimCommit(w)
        \/ \E failAt \in 0..1 : Dispatch(w, failAt, FALSE)
        \/ Record(w)

SpecRefs == RefsInit /\ [][RefsNext]_vars

\* Webhook requests against a configured or unconfigured secret.
MaxRequests == 2

Secrets == {"", "k1"}

RepoNames == [uuid : {TRUE}, id : ClaimIds] \cup {[uuid |-> FALSE, id |-> 0]}

Bodies == [repo : RepoNames, after : {1, ZeroSha, EmptySha}, ref : {MainRef, "refs/heads/dev"}]

\* A body other than b, as signed by the sender before the body was changed.
OtherBody(b) == [b EXCEPT !.after = IF b.after = 1 THEN 2 ELSE 1]

Signatures(b) ==
    {HexDigest(Hmac(k, b)) : k \in {"", "k1", "k2"}}
        \cup {HexDigest(Hmac("k1", OtherBody(b))), EmptySignature, NonAsciiSignature}

HookInit ==
    /\ outbox = <<>>
    /\ nextId = 0
    /\ locks = <<>>
    /\ \E S \in SUBSET ClaimIds : claims = [c \in S |-> NewClaim]
    /\ forge = [c \in ClaimIds |-> NoRepo]
    /\ pc = [w \in Workers |-> "idle"]
    /\ batch = [w \in Workers |-> <<>>]
    /\ idx = [w \in Workers |-> 0]
    /\ res = [w \in Workers |-> NoRes]
    /\ hist = <<>>
    /\ prov = [c \in ClaimIds |-> NoRun]
    /\ secret \in Secrets
    /\ req = NoRequest
    /\ resp = 0
    /\ events = <<>>
    /\ writes = 0
    /\ notify = NoTasks
    /\ Started
    /\ retried = <<>>
    /\ head = <<>>
    /\ txn = NoTxn
    /\ content = [c \in DOMAIN claims |-> 1]

HookNext ==
    \E b \in Bodies, ev \in {"push", "issues"} : \E sg \in Signatures(b) :
        /\ req.n < MaxRequests
        /\ Webhook([n |-> 0, event |-> ev, body |-> b, signature |-> sg])

SpecWebhook == HookInit /\ [][HookNext]_vars

\* ------------------------------------------------------------------------
\* Reconciliation worker: claims C1..C7
\* ------------------------------------------------------------------------
\* Worker w has entry i in the batch it selected and has not yet recorded
\* its outcome.
InBatch(w, i) ==
    \/ pc[w] = "claimed" /\ i \in SeqIds(batch[w])
    \/ /\ pc[w] \in {"dispatch", "writeback", "record"}
       /\ \E j \in idx[w]..Len(batch[w]) : batch[w][j].id = i

\* Worker w has committed its claim of entry i and not yet recorded it.
Holds(w, i) ==
    /\ pc[w] \in {"dispatch", "writeback", "record"}
    /\ \E j \in idx[w]..Len(batch[w]) : batch[w][j].id = i

RECURSIVE SumAttempts(_)
SumAttempts(S) ==
    IF S = {} THEN 0
    ELSE LET i == CHOOSE x \in S : TRUE
         IN  outbox[i].attempts + SumAttempts(S \ {i})

Drained ==
    /\ \A w \in Workers : pc[w] = "idle"
    /\ \A i \in DOMAIN outbox : outbox[i].status = "completed"

\* C1: an entry is in the batch of at most one worker at any time; while a
\* worker holds a claimed entry the entry is processing; and when the outbox
\* is drained and no handler ever raised, the attempts of the M entries add
\* up to M.
C1_NoDoubleProcessing ==
    /\ \A i \in 1..nextId : \A w1, w2 \in Workers :
          InBatch(w1, i) /\ InBatch(w2, i) => w1 = w2
    /\ \A i \in DOMAIN outbox : \A w \in Workers :
          Holds(w, i) => outbox[i].status = "processing"
    /\ (Drained /\ \A i \in DOMAIN outbox : hist[i].raised = 0)
          => SumAttempts(DOMAIN outbox) = Cardinality(DOMAIN outbox)

\* Two workers hold different entries at the same time.
C1_Witness ==
    \E w1, w2 \in Workers : \E i, j \in DOMAIN outbox :
        /\ w1 # w2 /\ i # j
        /\ Holds(w1, i) /\ Holds(w2, j)
        /\ pc[w1] = "record" /\ pc[w2] = "record"

\* Worker w records the outcome of entry i in this step.
Records(w, i) ==
    /\ pc[w] = "record" /\ pc'[w] # "record"
    /\ batch[w][idx[w]].id = i

C2_Step ==
    \A i \in DOMAIN outbox \cap DOMAIN outbox' :
        /\ outbox'[i].attempts # outbox[i].attempts
              => /\ outbox'[i].attempts = outbox[i].attempts + 1
                 /\ \E w \in Workers : Records(w, i)
        /\ (\E w \in Workers : Records(w, i))
              => outbox'[i].attempts = outbox[i].attempts + 1

\* C2: every recorded dispatch of an entry raises its attempts by exactly 1,
\* whether the handler returned or raised, and no other step changes
\* attempts; an entry that is not being processed has as many attempts as
\* handler invocations.
C2_AttemptsCountDispatches ==
    /\ [][C2_Step]_vars
    /\ [](\A i \in DOMAIN outbox :
            outbox[i].status # "processing" => outbox[i].attempts = hist[i].dispatched)

\* An entry was dispatched twice: once the handler raised, once it returned.
C2_Witness ==
    \E i \in DOMAIN outbox :
        /\ outbox[i].attempts = 2 /\ hist[i].raised = 1 /\ hist[i].dispatched = 2
        /\ outbox[i].status = "completed"

\* C3: attempts never exceeds max_attempts.
C3_AttemptsBounded ==
    \A i \in DOMAIN outbox :
        outbox[i].max_attempts >= 1 => outbox[i].attempts <= outbox[i].max_attempts

\* An entry that succeeded on its last allowed attempt.
C3_Witness ==
    \E i \in DOMAIN outbox :
        /\ outbox[i].status = "completed"
        /\ outbox[i].max_attempts >= 2
        /\ outbox[i].attempts = outbox[i].max_attempts

\* C4: a failed entry has used exactly max_attempts attempts.
C4_FailedIsExhausted ==
    \A i \in DOMAIN outbox :
        outbox[i].status = "failed" => outbox[i].attempts = outbox[i].max_attempts

\* A failed entry that was retried before it failed.
C4_Witness ==
    \E i \in DOMAIN outbox :
        outbox[i].status = "failed" /\ outbox[i].max_attempts >= 2

\* C5: processed_at is set exactly when the entry is completed.
C5_ProcessedAtIffCompleted ==
    \A i \in DOMAIN outbox :
        (outbox[i].processed_at # NULL) <=> (outbox[i].status = "completed")

\* A completed entry next to one whose attempt failed.
C5_Witness ==
    \E i, j \in DOMAIN outbox :
        /\ outbox[i].status = "completed" /\ outbox[i].processed_at # NULL
        /\ outbox[j].status \in {"pending", "failed"} /\ outbox[j].attempts >= 1

\* Ids that enter worker w's batch in this step.
NewlyClaimed(w) == IF pc[w] = "idle" /\ pc'[w] = "claimed" THEN SeqIds(batch'[w]) ELSE {}

C6_Step ==
    /\ \A i \in DOMAIN outbox \cap DOMAIN outbox' :
          LET a == outbox[i]
              b == outbox'[i]
          IN  a.status # b.status =>
                \/ a.status = "pending" /\ b.status = "processing"
                \/ a.status = "processing" /\ b.status = "completed"
                \/ /\ a.status = "processing" /\ b.status = "pending"
                   /\ b.attempts < b.max_attempts
                \/ /\ a.status = "processing" /\ b.status = "failed"
                   /\ b.attempts = b.max_attempts
    /\ \A w \in Workers : \A i \in NewlyClaimed(w) :
          i \in DOMAIN outbox /\ outbox[i].status = "pending"

\* C6: the worker changes an entry's status only along pending -> processing,
\* processing -> completed, processing -> pending (attempts < max_attempts)
\* and processing -> failed (attempts = max_attempts); completed and failed
\* entries keep their status and are never claimed.
C6_StatusMachine == [][C6_Step]_vars

\* A failed and a completed entry while a worker is polling.
C6_Witness ==
    /\ \E i \in DOMAIN outbox : outbox[i].status = "failed"
    /\ \E i \in DOMAIN outbox : outbox[i].status = "completed" /\ outbox[i].attempts >= 2
    /\ \E w \in Workers : pc[w] = "idle"

\* The handler raised on every dispatch of entry i so far.
AlwaysRaised(i) == hist[i].raised = hist[i].dispatched

C7_State ==
    \A i \in DOMAIN outbox :
        (AlwaysRaised(i) /\ outbox[i].status # "processing") =>
            /\ outbox[i].attempts = hist[i].dispatched
            /\ hist[i].dispatched <= outbox[i].max_attempts
            /\ hist[i].dispatched < outbox[i].max_attempts => outbox[i].status = "pending"
            /\ hist[i].dispatched = outbox[i].max_attempts => outbox[i].status = "failed"

C7_Step ==
    /\ \A i \in DOMAIN outbox \cap DOMAIN outbox' :
          outbox[i].status = "failed" => outbox'[i] = outbox[i]
    /\ \A w \in Workers : \A i \in NewlyClaimed(w) :
          i \in DOMAIN outbox /\ outbox[i].status # "failed"

\* C7: an entry with max_attempts = k whose handler raises on every dispatch
\* is pending after each of the first k-1 dispatches and failed, with
\* attempts = k, after the k-th; a failed entry is never claimed or changed.
C7_FailsAfterKAttempts == []C7_State /\ [][C7_Step]_vars

\* An entry failed after two raising dispatches, with a worker free to poll.
C7_Witness ==
    \E i \in DOMAIN outbox :
        /\ outbox[i].status = "failed" /\ outbox[i].max_attempts = 2
        /\ hist[i].dispatched = 2 /\ hist[i].raised = 2
        /\ \A w \in Workers : pc[w] = "idle"

\* ------------------------------------------------------------------------
\* Provision handler: claims C8, C9
\* ------------------------------------------------------------------------
\* C8: after the provision handler ran twice for a claim, the second run
\* starting after the first completed or died at any step, the claim has
\* its repository and repo_status = ready.
C8_TwoRunsLeaveReady ==
    \A c \in ClaimIds :
        prov[c].phase = 2 => forge[c].exists /\ claims[c].repo_status = "ready"

\* What one successful invocation leaves in the store for claim c.
AfterOneRun(c) ==
    _handle_create_repo(StartCalls([x \in ClaimIds |-> NoRepo], 0, FALSE),
                        ProvisionPayload(c, prov[c].fmt))

\* C9: a second invocation of the provision handler leaves the end state of
\* one successful invocation: one repository, one commit, one protection
\* rule, one webhook, and the claim ready with that commit as head.
C9_SecondRunIsIdempotent ==
    \A c \in ClaimIds :
        prov[c].phase = 2 =>
            /\ forge[c] = AfterOneRun(c).forge[c]
            /\ claims[c] = [repo_status |-> "ready", forgejo_repo_id |-> RepoId(c),
                            current_head_sha |-> AfterOneRun(c).sha]

\* ------------------------------------------------------------------------
\* Webhook receiver: claim C10
\* ------------------------------------------------------------------------
\* The signature of request rq is not the hex HMAC of its body under the
\* configured secret, or no secret is configured.
BadSignature(rq) ==
    secret = "" \/ rq.signature # HexDigest(Hmac(secret, rq.body))

C10_Step ==
    (req' # req /\ BadSignature(req')) =>
        /\ resp' = 401
        /\ claims' = claims /\ writes' = writes /\ events' = events

\* C10: a request with a wrong signature, or received while the secret is
\* unconfigured, is answered 401, writes nothing and emits no notification.
C10_BadSignatureIs401 == [][C10_Step]_vars


\* ------------------------------------------------------------------------
\* Webhook receiver: claims C11, C12
\* ------------------------------------------------------------------------
\* Request rq is a non-push event, a push to a ref other than the default
\* branch, or a deletion push.
NotTracked(rq) ==
    \/ rq.event # "push"
    \/ rq.body.ref # MainRef
    \/ rq.body.after = ZeroSha

C11_Step ==
    (req' # req /\ ~BadSignature(req') /\ NotTracked(req')) =>
        /\ resp' = 200
        /\ claims' = claims /\ writes' = writes
        /\ events' = events

\* C11: a correctly signed request that is a non-push event, a push to a
\* ref other than refs/heads/main, or a deletion push is answered 200,
\* leaves every claim's current_head_sha unchanged and emits no notification.
C11_IgnoredRequestsChangeNothing == [][C11_Step]_vars

\* A correctly signed deletion push to the default branch of an existing
\* claim was answered.
C11_Witness ==
    /\ req.n >= 1 /\ ~BadSignature(req) /\ resp = 200
    /\ req.event = "push" /\ req.body.ref = MainRef /\ req.body.after = ZeroSha
    /\ req.body.repo.uuid /\ req.body.repo.id \in DOMAIN claims

\* Request rq is a push of a revision to the default branch of an existing
\* claim.
TrackedPush(rq) ==
    /\ rq.event = "push"
    /\ rq.body.repo.uuid /\ rq.body.repo.id \in DOMAIN claims
    /\ rq.body.ref = MainRef
    /\ rq.body.after \notin {ZeroSha, EmptySha}

C12_Step ==
    (req' # req /\ ~BadSignature(req') /\ TrackedPush(req')) =>
        LET c == req'.body.repo.id
            R == req'.body.after
        IN  /\ resp' = 200
            /\ claims'[c].current_head_sha = R
            /\ events' = Append(events, [claim_id |-> c, head_sha |-> R,
                                         ref |-> req'.body.ref])

\* C12: a correctly signed push to the default branch of an existing claim
\* with a non-zero after revision R sets the claim's current_head_sha to R
\* and emits one notification carrying the claim id, R and the ref.
C12_PushUpdatesHead == [][C12_Step]_vars

\* A tracked push was handled: the claim has the pushed revision and the
\* notification is the last one emitted.
C12_Witness ==
    /\ req.n >= 1 /\ ~BadSignature(req) /\ TrackedPush(req)
    /\ claims[req.body.repo.id].current_head_sha = req.body.after
    /\ Len(events) >= 1 /\ events[Len(events)].head_sha = req.body.after


\* ------------------------------------------------------------------------
\* Invalid input: claims C13, C14
\* ------------------------------------------------------------------------
\* Worker w runs the handler of its current entry in this step.
Dispatches(w) == pc[w] = "dispatch" /\ pc'[w] \in {"record", "writeback"}

\* The name consists of safe characters only: a letter or digit followed by
\* at most 254 letters, digits, ".", "_", "/" or "-".
SafeName(ref) ==
    /\ Len(ref) \in 1..RefMaxLen
    /\ ref[1] \in Alnum
    /\ \A i \in 2..Len(ref) : ref[i] \in RefClass

UnsafeRef(ref) ==
    \/ Contains(ref, <<".", ".">>)
    \/ EndsWith(ref, DotLock)
    \/ EndsWith(ref, <<"/">>)
    \/ ~SafeName(ref)

\* Entry e is a branch entry one of whose name fields is unsafe.
HasUnsafeRef(e) ==
    \/ /\ e.operation = "create_branch"
       /\ UnsafeRef(e.payload.branch_name) \/ UnsafeRef(e.payload.from_ref)
    \/ /\ e.operation = "rename_branch"
       /\ UnsafeRef(e.payload.old_name) \/ UnsafeRef(e.payload.new_name)

C13_Step ==
    \A w \in Workers :
        (Dispatches(w) /\ HasUnsafeRef(Entry(w))) =>
            /\ ~res'[w].ok /\ res'[w].err = "ValueError"
            /\ res'[w].n = 0
            /\ forge' = forge

\* C13: the dispatch of a create_branch or rename_branch entry with a name
\* field that contains "..", ends with ".lock", ends with "/" or is not made
\* of safe characters raises an error before any call to the external store.
C13_UnsafeRefRejectedBeforeCall == [][C13_Step]_vars


\* Entry e is invalid input: an unsupported format or an unsafe name.
InvalidInput(e) ==
    \/ e.operation \in {"create_repo", "commit_files"} /\ e.payload.format \notin AllowedFormats
    \/ HasUnsafeRef(e)

\* C14: an entry rejected as invalid input is never retried: once its
\* handler has been invoked it is not pending again and the handler is not
\* invoked a second time.
C14_InvalidInputNeverRetried ==
    \A i \in DOMAIN outbox :
        (InvalidInput(outbox[i]) /\ hist[i].dispatched >= 1) =>
            /\ outbox[i].status # "pending"
            /\ hist[i].dispatched = 1


\* ------------------------------------------------------------------------
\* Provisioning outcome: claims C15, C16, C17
\* ------------------------------------------------------------------------
\* The claim row is ready with its repository id and head recorded.
Reconciled(c) ==
    /\ claims[c].repo_status = "ready"
    /\ claims[c].forgejo_repo_id # NULL
    /\ claims[c].current_head_sha # NULL

\* C15: whenever a create_repo entry is completed, the claim it names, if
\* the row exists, is ready with forgejo_repo_id and current_head_sha set;
\* and a create_repo entry recorded after one dispatch in which every call
\* succeeded is completed.
C15_CompletedProvisionIsReady ==
    \A i \in DOMAIN outbox :
        outbox[i].operation = "create_repo" =>
            /\ (outbox[i].status = "completed" /\ outbox[i].payload.claim_id \in DOMAIN claims)
                  => Reconciled(outbox[i].payload.claim_id)
            /\ (hist[i].dispatched = 1 /\ hist[i].raised = 0 /\ outbox[i].status # "processing")
                  => outbox[i].status = "completed" /\ outbox[i].attempts = 1

\* One pass over one provision entry, all calls succeeding, has ended.
C15_Witness ==
    /\ DOMAIN outbox = {1}
    /\ outbox[1].operation = "create_repo" /\ outbox[1].status = "completed"
    /\ hist[1].dispatched = 1 /\ hist[1].raised = 0
    /\ Reconciled(outbox[1].payload.claim_id)
    /\ \A w \in Workers : pc[w] = "idle"


\* Worker w is recording the outcome of an attempt whose handler raised.
RecordsFailure(w) == pc[w] = "record" /\ ~res[w].ok /\ pc'[w] # "record"

C16_Step ==
    \A w \in Workers :
        /\ (Dispatches(w) /\ ~res'[w].ok) => claims' = claims /\ pc'[w] = "record"
        /\ RecordsFailure(w) => claims' = claims

C16_State ==
    \A i \in DOMAIN outbox :
        ( /\ outbox[i].operation = "create_repo" /\ outbox[i].max_attempts = 2
          /\ hist[i].dispatched = 2 /\ hist[i].raised = 2
          /\ outbox[i].status # "processing" ) =>
            /\ outbox[i].status = "failed"
            /\ claims[outbox[i].payload.claim_id].repo_status = "provisioning"
            /\ claims[outbox[i].payload.claim_id].forgejo_repo_id = NULL

\* C16: an attempt whose handler raises leaves the claim row unchanged, in
\* the dispatch and in the recording of the failure; a create_repo entry
\* with max_attempts = 2 whose two dispatches raised is failed and its claim
\* is still provisioning.
C16_RaisingAttemptLeavesClaim == [][C16_Step]_vars /\ []C16_State

\* Two passes with the store unavailable on every call: the entry is failed,
\* nothing exists in the store and the claim is as created.
C16_Witness ==
    \E i \in DOMAIN outbox :
        /\ outbox[i].operation = "create_repo" /\ outbox[i].max_attempts = 2
        /\ outbox[i].status = "failed" /\ outbox[i].last_error = "unavailable"
        /\ hist[i].raised = 2
        /\ forge[outbox[i].payload.claim_id] = NoRepo
        /\ claims[outbox[i].payload.claim_id] = NewClaim


\* The create_repo entry of claim c, if any, is failed.
ProvisionFailed(c) ==
    \E i \in DOMAIN outbox :
        /\ outbox[i].operation = "create_repo" /\ outbox[i].payload.claim_id = c
        /\ outbox[i].status = "failed"

C17_Step ==
    \A c \in DOMAIN claims :
        (ProvisionFailed(c) /\ claims[c].repo_status # "ready") =>
            (c \in DOMAIN claims' /\ claims'[c].repo_status # "ready")

\* C17: when the create_repo entry of a claim is failed, the claim is not
\* ready, and no worker or webhook step makes it ready afterwards.
C17_FailedProvisionNeverReady ==
    /\ [](\A c \in DOMAIN claims : ProvisionFailed(c) => claims[c].repo_status # "ready")
    /\ [][C17_Step]_vars


\* ------------------------------------------------------------------------
\* Shutdown: claims C18, C19
\* ------------------------------------------------------------------------
\* The poll-loop task of worker w has terminated.
TaskDone(w) == pc[w] = "done"

C18_Step ==
    /\ \A w \in Workers :
          stopPc[w] = "returned" => (TaskDone(w) /\ pc'[w] = "done" /\ ~Dispatches(w))
    /\ forge' # forge =>
          \E w \in Workers : pc[w] = "dispatch" /\ pc'[w] # "dispatch" /\ ~closed[w]
                              /\ stopPc[w] # "returned"

\* C18: the client of a worker is closed only when its poll-loop task has
\* terminated; after stop() has returned the task takes no step, and every
\* change of the external store is made by a handler of a worker whose
\* client is open and whose stop() has not returned.
C18_CloseAfterTaskEnds ==
    /\ [](\A w \in Workers : closed[w] => TaskDone(w))
    /\ [][C18_Step]_vars

\* stop() of a worker has returned after its task was cancelled inside a
\* handler that had already created the repository; the other worker is
\* still running.
C18_Witness ==
    \E w, v \in Workers : \E i \in DOMAIN outbox :
        /\ stopPc[w] = "returned" /\ closed[w] /\ TaskDone(w)
        /\ outbox[i].status = "processing" /\ hist[i].dispatched = 1
        /\ forge[outbox[i].payload.claim_id].exists
        /\ v # w /\ stopPc[v] = "none" /\ pc[v] = "idle"

\* Worker w is in _process_entry: its handler is in flight or has ended
\* with the outcome not yet recorded.
InFlight(w) == pc[w] \in {"dispatch", "writeback", "record"}

C19_Step ==
    \A w \in Workers : InFlight(w) => pc'[w] # "done"

\* C19: a handler call in flight when stop() is called is not aborted: the
\* poll loop does not terminate while an entry is being dispatched or its
\* outcome is unrecorded.
C19_InFlightCallCompletes == [][C19_Step]_vars


\* ------------------------------------------------------------------------
\* Producers: claim C20
\* ------------------------------------------------------------------------
\* The outbox entries naming claim c.
EntriesOf(c) == {i \in DOMAIN outbox : outbox[i].payload.claim_id = c}

C20_State ==
    /\ \A c \in DOMAIN claims :
          claims[c].repo_status = "provisioning" =>
              \E i \in EntriesOf(c) : outbox[i].operation = "create_repo"
    /\ \A i \in DOMAIN outbox : outbox[i].payload.claim_id \in DOMAIN claims
    /\ DOMAIN content = DOMAIN claims
    /\ \A c \in DOMAIN claims : content[c] = Cardinality(EntriesOf(c))

C20_Step ==
    /\ (claims' # claims \/ content' # content) <=> outbox' # outbox
    /\ txn'.phase = "aborted" =>
          (claims' = claims /\ content' = content /\ outbox' = outbox)

\* C20: a producer's claim change and its outbox entry reach the tables in
\* the same step or not at all: every provisioning claim has a create_repo
\* entry, every entry names a committed claim, each claim has one entry for
\* each write of its content, and an abandoned request leaves no row.
C20_ProducerWritesAreAtomic == []C20_State /\ [][C20_Step]_vars

\* A request was abandoned after its claim was flushed and its entry added,
\* next to a claim committed with its entry.
C20_Witness ==
    /\ txn.phase = "aborted"
    /\ txn.inserts # {} /\ txn.entries # <<>>
    /\ txn.inserts \cap DOMAIN claims = {}
    /\ \E c \in DOMAIN claims : claims[c].repo_status = "provisioning"


\* ------------------------------------------------------------------------
\* Mirror of the external store: claim C21
\* ------------------------------------------------------------------------
\* Every entry is completed or failed, no worker holds one, and every push
\* notification of the store has been handled.
Quiescent ==
    /\ \A i \in DOMAIN outbox : outbox[i].status \in {"completed", "failed"}
    /\ \A w \in Workers : pc[w] = "idle"
    /\ \A c \in ClaimIds : 1 + Delivered(c) = forge[c].commits

\* C21: once every outbox entry is terminal and every push notification has
\* been handled, the current_head_sha of each ready claim is the head of
\* main in its repository.
C21_MirrorConverges ==
    Quiescent =>
        \A c \in DOMAIN claims :
            claims[c].repo_status = "ready" => claims[c].current_head_sha = forge[c].commits


\* ------------------------------------------------------------------------
\* repo_status: claim C22
\* ------------------------------------------------------------------------
\* The step is debug_clear_outbox: the entries that are not completed are
\* deleted, the provisioning claims become error, nothing else changes.
IsBulkClear ==
    /\ outbox' = [i \in {j \in DOMAIN outbox : outbox[j].status = "completed"} |-> outbox[i]]
    /\ claims' = [c \in DOMAIN claims |->
                    IF claims[c].repo_status = "provisioning"
                    THEN [claims[c] EXCEPT !.repo_status = "error"]
                    ELSE claims[c]]
    /\ UNCHANGED <<forge, workerVars, hookVars>>

C22_Step ==
    /\ \A c \in DOMAIN claims' \ DOMAIN claims : claims'[c].repo_status = "provisioning"
    /\ (\E c \in DOMAIN claims :
            claims[c].repo_status # "error" /\ claims'[c].repo_status = "error")
          => IsBulkClear

\* C22: a claim is created provisioning, and every step in which the
\* repo_status of a claim becomes error is the operator's bulk clear.
C22_ErrorOnlyByBulkClear == [][C22_Step]_vars

\* A claim set to error by the bulk clear whose head was written by a
\* handler or by the webhook receiver, with a push handled and a worker at
\* work.
C22_Witness ==
    /\ \E c \in DOMAIN claims :
          claims[c].repo_status = "error" /\ claims[c].current_head_sha # NULL
    /\ req.n >= 1
    /\ \E w \in Workers : pc[w] = "record"


\* ------------------------------------------------------------------------
\* Unknown operations: claim C23
\* ------------------------------------------------------------------------
UnknownOp(e) == e.operation \notin OutboxOperation

C23_State ==
    \A i \in DOMAIN outbox :
        UnknownOp(outbox[i]) =>
            /\ outbox[i].status # "completed"
            /\ hist[i].raised = hist[i].dispatched
            /\ outbox[i].status \in {"pending", "failed"} =>
                  /\ outbox[i].attempts = hist[i].dispatched
                  /\ outbox[i].status = "failed" <=>
                        outbox[i].attempts >= outbox[i].max_attempts

C23_Step ==
    \A w \in Workers :
        (Dispatches(w) /\ UnknownOp(Entry(w))) =>
            /\ forge' = forge
            /\ res'[w].n = 0
            /\ ~res'[w].ok
            /\ claims' = claims

\* C23: an entry whose operation is none of the six is never completed, its
\* dispatch raises without a call to the store, and every dispatch of it
\* counts as an attempt until attempts reaches max_attempts and it is failed.
C23_UnknownOperationIsAnError == []C23_State /\ [][C23_Step]_vars

\* The unknown entry has failed after two dispatches.
C23_Witness ==
    \E i \in DOMAIN outbox :
        /\ UnknownOp(outbox[i])
        /\ outbox[i].status = "failed"
        /\ hist[i].dispatched = 2


\* ------------------------------------------------------------------------
\* The way to ready: claim C24
\* ------------------------------------------------------------------------
ProvisionCalls == <<"create_repo", "commit_files", "setup_branch_protection", "setup_webhook">>

\* Worker w runs the write-back of a provision handler for claim c whose four
\* calls all returned, in order.
ProvisionWriteBack(w, c) ==
    /\ pc[w] = "writeback" /\ pc'[w] = "record"
    /\ Entry(w).operation = "create_repo"
    /\ Entry(w).payload.claim_id = c
    /\ res[w].ok
    /\ res[w].calls = ProvisionCalls
    /\ claims'[c].forgejo_repo_id = res[w].repo_id
    /\ claims'[c].current_head_sha = res[w].sha

C24_Step ==
    /\ \A c \in DOMAIN claims' \ DOMAIN claims : claims'[c].repo_status # "ready"
    /\ \A c \in DOMAIN claims \cap DOMAIN claims' :
          (claims[c].repo_status # "ready" /\ claims'[c].repo_status = "ready")
             => \E w \in Workers : ProvisionWriteBack(w, c)

C24_State ==
    \A c \in DOMAIN claims :
        claims[c].repo_status = "ready" =>
            /\ claims[c].forgejo_repo_id # NULL
            /\ claims[c].current_head_sha # NULL

\* C24: repo_status becomes ready only in the write-back of a provision
\* handler whose create_repo, commit_files, setup_branch_protection and
\* setup_webhook calls returned in that order in the same invocation, and a
\* ready claim has forgejo_repo_id and current_head_sha set.
C24_ReadyOnlyByProvisionWriteBack == []C24_State /\ [][C24_Step]_vars

\* A provision handler has just written a claim back as ready.
C24_Witness ==
    \E w \in Workers :
        /\ pc[w] = "record"
        /\ Entry(w).operation = "create_repo"
        /\ res[w].calls = ProvisionCalls
        /\ Entry(w).payload.claim_id \in DOMAIN claims
        /\ claims[Entry(w).payload.claim_id].repo_status = "ready"


\* ------------------------------------------------------------------------
\* One transition for every exception: claim C25
\* ------------------------------------------------------------------------
ErrorKinds == {"unavailable", "not_found", "conflict", "api_error", "ValueError"}

C25_Step ==
    \A w \in Workers :
        RecordsFailure(w) =>
            LET i == Entry(w).id
            IN  /\ res[w].err \in ErrorKinds
                /\ outbox'[i].attempts = outbox[i].attempts + 1
                /\ outbox'[i].status =
                      IF outbox[i].attempts + 1 < outbox[i].max_attempts
                      THEN "pending" ELSE "failed"
                /\ pc'[w] = IF idx[w] < Len(batch[w]) THEN "dispatch" ELSE "idle"
                /\ running'[w] = running[w]

\* C25: whatever exception the handler raised, recording it adds 1 to
\* attempts and sets status to pending if the new attempts is below
\* max_attempts and to failed otherwise, and the worker goes on with the
\* next entry of its batch or its next poll.
C25_SameTransitionForEveryError == [][C25_Step]_vars

\* Every kind of exception has been recorded on some path: here a conflict
\* and a validation error, the worker being at its next entry after the
\* first.
C25_Witness ==
    /\ outbox[1].last_error = "conflict" /\ outbox[1].status = "pending"
    /\ outbox[2].last_error = "ValueError" /\ outbox[2].status = "failed"


\* ------------------------------------------------------------------------
\* Batches: claim C26
\* ------------------------------------------------------------------------
\* Worker w takes the result of its claiming SELECT.
Selects(w) == pc[w] = "idle" /\ pc'[w] = "claimed"

Sorted(b) == \A j \in 1..(Len(b) - 1) : b[j].created_at <= b[j + 1].created_at

C26_Select(w) ==
    LET b == batch'[w]
        free == {i \in DOMAIN outbox : outbox[i].status = "pending" /\ i \notin DOMAIN locks}
    IN  /\ Len(b) \in 1..10
        /\ SeqIds(b) \subseteq free
        /\ Cardinality(SeqIds(b)) = Len(b)
        /\ Sorted(b)
        /\ \A i \in free \ SeqIds(b) :
              /\ Len(b) = 10
              /\ \A j \in 1..Len(b) : b[j].created_at <= outbox[i].created_at

\* Within the batch the entries before the dispatched one have been
\* dispatched in this pass and those after it have not.
C26_Dispatch(w) ==
    /\ Sorted(batch[w])
    /\ \A j \in 1..Len(batch[w]) :
          LET e == batch[w][j]
          IN  hist'[e.id].dispatched = IF j <= idx[w] THEN e.attempts + 1 ELSE e.attempts

C26_Step ==
    \A w \in Workers :
        /\ Selects(w) => C26_Select(w)
        /\ Dispatches(w) => C26_Dispatch(w)

\* C26: a poll claims at most 10 entries, each pending and unlocked when
\* claimed, and no pending unlocked entry left behind is older than a claimed
\* one; the entries of a batch are dispatched in created_at order.
C26_BatchIsOldestTen == [][C26_Step]_vars

\* A worker is at the last entry of a batch of ten while the eleventh entry
\* waits.
C26_Witness ==
    \E w \in Workers :
        /\ Len(batch[w]) = 10 /\ idx[w] = 10 /\ pc[w] = "record"
        /\ outbox[11].status = "pending"


\* ------------------------------------------------------------------------
\* Poll interval: claim C27
\* ------------------------------------------------------------------------
\* C27: a worker does not claim, for another dispatch, an entry that it has
\* returned to pending since it last slept for a polling interval.
C27_RetryAfterSleep ==
    [][\A w \in DOMAIN retried : Selects(w) => SeqIds(batch'[w]) \cap retried[w] = {}]_vars


\* ------------------------------------------------------------------------
\* The loop survives errors: claim C28
\* ------------------------------------------------------------------------
\* The positions a worker reaches from position p when nothing raises.
NormalNext(p) ==
    CASE p = "idle" -> {"claimed", "sleeping"}
      [] p = "claimed" -> {"dispatch"}
      [] p = "dispatch" -> {"writeback", "record"}
      [] p = "writeback" -> {"record"}
      [] p = "record" -> {"dispatch", "idle"}
      [] p = "sleeping" -> {"idle"}
      [] OTHER -> {}

C28_Step ==
    \A w \in Workers :
        /\ pc'[w] = "done" /\ pc[w] # "done" => cancelled[w] /\ ~running[w]
        /\ (pc'[w] \notin {pc[w], "done"} /\ pc'[w] \notin NormalNext(pc[w])) =>
              /\ pc'[w] = "sleeping"
              /\ batch'[w] = <<>>
              /\ \A i \in DOMAIN locks' : locks'[i] # w
        /\ pc[w] = "sleeping" => pc'[w] \in {"sleeping", "idle", "done"}

C28_State ==
    \A w \in Workers :
        /\ (pc[w] = "sleeping" /\ ~cancelled[w]) => ENABLED Wake(w)
        /\ pc[w] = "done" => ~running[w]

\* C28: an exception raised while a batch is claimed or processed takes the
\* loop to its sleep with no batch and no row lock held, the sleep ends in
\* the next poll, and the task ends only when stop() has cancelled it.
C28_LoopSurvivesErrors == []C28_State /\ [][C28_Step]_vars

\* After an error that left an entry in processing, a worker has slept and
\* is dispatching another entry.
C28_Witness ==
    /\ \E i \in DOMAIN outbox :
          /\ outbox[i].status = "processing"
          /\ \A w \in Workers : i \notin SeqIds(batch[w])
    /\ \E w \in Workers : pc[w] = "dispatch" /\ ~cancelled[w] /\ stopPc[w] = "none"
    /\ \A w \in Workers : pc[w] # "done"


\* ------------------------------------------------------------------------
\* Entries stuck in processing: claim C29
\* ------------------------------------------------------------------------
\* Entry i is in processing and in no worker's batch: the worker that
\* claimed it is gone.
Orphaned(i) ==
    /\ outbox[i].status = "processing"
    /\ \A w \in Workers : i \notin SeqIds(batch[w])

C29_Step ==
    \A i \in DOMAIN outbox :
        Orphaned(i) =>
            /\ \A w \in Workers : i \notin SeqIds(batch'[w])
            /\ IF i \in DOMAIN outbox'
               THEN outbox'[i] = outbox[i]
               ELSE IsBulkClear

\* C29: an entry in processing whose worker is gone is never claimed and
\* never written by a worker; it stays as it is until the bulk clear deletes
\* it.
C29_OrphanStaysProcessing == [][C29_Step]_vars

\* An entry is stuck in processing while an entry created after it has been
\* completed and both workers are polling again.
C29_Witness ==
    \E i \in DOMAIN outbox, j \in DOMAIN outbox :
        /\ Orphaned(i)
        /\ j > i /\ outbox[j].status = "completed"
        /\ \A w \in Workers : pc[w] = "idle"


\* ------------------------------------------------------------------------
\* Sequential dispatch: claim C30
\* ------------------------------------------------------------------------
\* The entries of w's batch whose handler was invoked in this pass and whose
\* outcome is not yet in the outbox.
InFlightOf(w) ==
    {j \in 1..Len(batch[w]) :
        /\ hist[batch[w][j].id].dispatched > batch[w][j].attempts
        /\ outbox[batch[w][j].id].attempts = batch[w][j].attempts}

C30_State == \A w \in Workers : Cardinality(InFlightOf(w)) <= 1

C30_Step ==
    \A w \in Workers :
        Dispatches(w) =>
            \A j \in 1..(idx[w] - 1) :
                /\ outbox[batch[w][j].id].attempts = batch[w][j].attempts + 1
                /\ outbox[batch[w][j].id].status \in {"completed", "pending", "failed"}

\* C30: a worker has at most one handler invocation without recorded
\* outcome, and it invokes the handler of an entry of its batch only when the
\* outcomes of all entries before it in the batch are in the outbox.
C30_SequentialDispatch == []C30_State /\ [][C30_Step]_vars

\* A worker has dispatched the second entry of its batch, the first being
\* completed or failed.
C30_Witness ==
    \E w \in Workers :
        /\ idx[w] = 2 /\ pc[w] \in {"writeback", "record"}
        /\ InFlightOf(w) = {2}
        /\ outbox[batch[w][1].id].status \in {"completed", "failed"}


\* ------------------------------------------------------------------------
\* Effect of the bulk clear: claim C31
\* ------------------------------------------------------------------------
\* The step deletes outbox rows or turns a claim to error: it is the bulk
\* clear, the only action that does either.
Clears ==
    \/ DOMAIN outbox' # DOMAIN outbox /\ DOMAIN outbox' \subseteq DOMAIN outbox
    \/ \E c \in DOMAIN claims :
          claims[c].repo_status # "error" /\ claims'[c].repo_status = "error"

Deleted == DOMAIN outbox \ DOMAIN outbox'

C31_Step ==
    Clears =>
        /\ Deleted = {i \in DOMAIN outbox : outbox[i].status # "completed"}
        /\ \A i \in DOMAIN outbox' : outbox'[i] = outbox[i]
        /\ \A c \in DOMAIN claims :
              IF c \in {outbox[i].payload.claim_id : i \in Deleted}
              THEN claims'[c].repo_status = "error"
              ELSE claims'[c] = claims[c]

\* C31: the bulk clear deletes exactly the entries that are not completed,
\* leaves the completed ones as they are, and sets repo_status = error on
\* the claims of the deleted entries and on no other claim.
C31_BulkClearMarksEntities == [][C31_Step]_vars


\* ------------------------------------------------------------------------
\* Columns the worker leaves alone: claim C32
\* ------------------------------------------------------------------------
C32_Step ==
    /\ \A i \in DOMAIN outbox \cap DOMAIN outbox' :
          /\ outbox'[i].operation = outbox[i].operation
          /\ outbox'[i].payload = outbox[i].payload
          /\ outbox'[i].max_attempts = outbox[i].max_attempts
          /\ outbox'[i].created_at = outbox[i].created_at
          /\ outbox'[i].retry_after = outbox[i].retry_after
    /\ \A i \in DOMAIN outbox' \ DOMAIN outbox : outbox'[i].retry_after = NULL
    /\ \A w \in Workers :
          Selects(w) =>
              LET free == {i \in DOMAIN outbox :
                             outbox[i].status = "pending" /\ i \notin DOMAIN locks}
              IN  Cardinality(free) <= 10 => SeqIds(batch'[w]) = free

C33_FanoutIsBounded ==
    /\ Len(notify.created) <= 50
    /\ \A j \in 1..Len(notify.created) : notify.created[j] # notify.source
    /\ notify.inflight <= 10

\* An event caused by a subscribed extension has started 50 tasks, 10 calls
\* are in flight and more tasks wait.
C33_Witness ==
    /\ Len(notify.created) = 50
    /\ notify.source # NULL
    /\ notify.inflight = 10
    /\ notify.waiting > 50


\* ------------------------------------------------------------------------
\* Progress: claim C34
\* ------------------------------------------------------------------------
Pending(i) == i \in DOMAIN outbox /\ outbox[i].status = "pending"

Settled(i) == i \in DOMAIN outbox /\ outbox[i].status \in {"completed", "failed"}

Stuck(i) == i \in DOMAIN outbox /\ Orphaned(i)

AtMostMaxAttemptsDispatches ==
    \A i \in DOMAIN outbox : hist[i].dispatched <= outbox[i].max_attempts

\* The statement as made: one worker that keeps polling is enough for every
\* pending entry to reach completed or failed.
C34_PendingEventuallySettled ==
    /\ []AtMostMaxAttemptsDispatches
    /\ \A i \in 1..MaxEntries : Pending(i) ~> Settled(i)

\* C34: while the workers keep polling, every pending entry eventually is
\* completed or failed, or was claimed by a worker that died with it; no
\* entry is dispatched more than max_attempts times.
C34_PendingSettledUnlessWorkerDied ==
    /\ []AtMostMaxAttemptsDispatches
    /\ \A i \in 1..MaxEntries : Pending(i) ~> (Settled(i) \/ Stuck(i))

\* One entry has failed after max_attempts = 2 dispatches by the surviving
\* workers while another is stuck with a worker that died.
C34_Witness ==
    \E i \in DOMAIN outbox, j \in DOMAIN outbox :
        /\ outbox[i].status = "failed" /\ hist[i].dispatched = 2
        /\ Stuck(j)


\* ------------------------------------------------------------------------
\* Entries after shutdown: claim C35
\* ------------------------------------------------------------------------
\* C35: once stop() has returned in every worker, no entry is in processing:
\* every entry of a batch in flight at shutdown is completed, pending or
\* failed.
C35_NoProcessingAfterStop ==
    (\A w \in Workers : stopPc[w] = "returned") =>
        \A i \in DOMAIN outbox : outbox[i].status # "processing"


\* ------------------------------------------------------------------------
\* A database error in one entry of a batch: claim C36
\* ------------------------------------------------------------------------
\* Recording the outcome of w's current entry raises out of _process_entry.
RecordingFails(w) == pc[w] = "record" /\ pc'[w] = "sleeping"

C36_Step ==
    \A w \in Workers :
        RecordingFails(w) =>
            \A j \in (idx[w] + 1)..Len(batch[w]) :
                LET i == batch[w][j].id
                IN  i \in DOMAIN outbox' =>
                      \/ i \in SeqIds(batch'[w])
                      \/ outbox'[i].status = "pending"

\* C36: when recording the outcome of an entry fails with a database error,
\* the entries after it in the batch stay with the worker, to be dispatched,
\* or are pending again; none is left in processing without a worker.
C36_BatchSurvivesDbError == [][C36_Step]_vars


\* ------------------------------------------------------------------------
\* Order of content commits: claim C37
\* ------------------------------------------------------------------------
\* The commit_files entries of claim c.
ContentEntries(c) ==
    {i \in DOMAIN outbox :
        outbox[i].operation = "commit_files" /\ outbox[i].payload.claim_id = c}

Newest(S) == CHOOSE i \in S : \A j \in S : j <= i

\* C37: when the commit_files entries of a claim have all completed, the
\* content at the head of its repository is that of the entry created last.
C37_LastContentWins ==
    \A c \in DOMAIN head :
        ( /\ ContentEntries(c) # {}
          /\ \A i \in ContentEntries(c) : outbox[i].status = "completed" ) =>
            head[c] = Newest(ContentEntries(c))


\* ------------------------------------------------------------------------
\* After the bulk clear: claim C38
\* ------------------------------------------------------------------------
ErrorStays ==
    \A c \in DOMAIN claims :
        claims[c].repo_status = "error" => claims'[c].repo_status = "error"

\* A row that appears in the outbox is a new one, inserted by a producer.
NoEntryRecreated == \A i \in DOMAIN outbox' \ DOMAIN outbox : i > nextId

\* C38: a claim set to error stays in error whatever the workers do, the
\* write-back of a provision handler in flight included, and no outcome
\* update brings a deleted entry back.
C38_ErrorIsFinal == [][ErrorStays /\ NoEntryRecreated]_vars


\* ------------------------------------------------------------------------
\* Notifications name existing claims: claim C39
\* ------------------------------------------------------------------------
C39_Step ==
    events' # events =>
        LET e == events'[Len(events')]
        IN  /\ e.claim_id \in DOMAIN claims
            /\ claims'[e.claim_id].current_head_sha = e.head_sha

\* C39: the webhook receiver emits a content-updated notification only for
\* a push whose repository is an existing claim, the current_head_sha of
\* which the request has set to the pushed revision.
C39_NotificationNamesUpdatedClaim == [][C39_Step]_vars


\* ------------------------------------------------------------------------
\* Head updates leave the rest of the claim alone: claim C40
\* ------------------------------------------------------------------------
\* Worker w runs the head update of _handle_commit_files.
ContentWriteBack(w) ==
    /\ pc[w] = "writeback" /\ pc'[w] = "record"
    /\ Entry(w).operation = "commit_files"

C40_Step ==
    (req' # req \/ \E w \in Workers : ContentWriteBack(w)) =>
        /\ DOMAIN claims' = DOMAIN claims
        /\ \A c \in DOMAIN claims :
              /\ claims'[c].repo_status = claims[c].repo_status
              /\ claims'[c].forgejo_repo_id = claims[c].forgejo_repo_id

====
